---- MODULE Spec2Model ----
(***************************************************************************)
(* Safety-gated cleanup orchestrator (src/Lambda/lambda_cleanup.py).       *)
(*                                                                         *)
(* One Lambda invocation is a process whose position is pc.  Every call to *)
(* the cloud provider (a describe_* read or a mutating call) is one step,  *)
(* so that the order of reads and mutations is visible in the behaviour.   *)
(* The provider is a collaborator: each of its calls either raises or      *)
(* returns, and a mutating call that returns changes the provider state.   *)
(***************************************************************************)
EXTENDS Integers, Sequences, FiniteSets, TLC

(* ------------------------------ bounds -------------------------------- *)

\* longest target list of a request
MaxTargets == 2
\* the last reading of the clock
MaxClock == 2
\* the most audit writes followed
MaxEntries == 2

(* --------------------------- value domains ---------------------------- *)

InstanceIds   == {"i-1", "i-2"}
VolumeIds     == {"vol-1", "vol-2"}
AllocationIds == {"eip-1", "eip-missing"}
GroupIds      == {"sg-1", "sg-2"}

Absent == "absent"

\* lifecycle states the provider reports for an instance
InstanceStates == {"pending", "running", "stopping", "stopped", "shutting-down", "terminated"}
\* states the provider reports for a volume
VolumeStates == {"creating", "available", "in-use", "deleting"}
\* an address record as describe_addresses returns it, with or without AssociationId
AddressRecords(a) == {[AllocationId |-> a], [AllocationId |-> a, AssociationId |-> "eipassoc-1"]}
\* a security group and the network interfaces that reference it
GroupRecords == [GroupName : {"default", "web"}, enis : SUBSET {"eni-1"}]

\* messages of the exceptions the provider raises: a transient failure of any
\* call, and the failure of a call that names a resource that does not exist
ErrorMessages == {"RequestLimitExceeded"}
NotFoundMessage == "NotFound"
\* message of the TypeError raised by iterating a target list that is null
NotIterable == "'NoneType' object is not iterable"

\* the JSON values a request can carry as dry_run, and "absent" for a missing key
JTrue == "true"
JFalse == "false"
JNull == "null"
JZero == "0"
JEmptyString == "\"\""
JStringFalse == "\"false\""
NoKey == "absent"
DryRunValues == {JTrue, JFalse, JNull, JZero, JEmptyString, JStringFalse}
\* the dry_run entries of a request that follows the documented event: a boolean,
\* or no entry
BooleanFlags == {JTrue, JFalse, NoKey}

KnownActions == {"stop_instances", "start_instances", "terminate_instances",
                 "delete_volumes", "release_eips", "delete_security_groups"}
Actions == KnownActions \cup {"reboot_instances", JNull}

\* sequences over S of length at most n
RECURSIVE SeqsUpTo(_, _)
SeqsUpTo(S, n) ==
    IF n = 0 THEN {<< >>}
    ELSE LET shorter == SeqsUpTo(S, n - 1)
         IN  shorter \cup {Append(s, x) : s \in {t \in shorter : Len(t) = n - 1}, x \in S}

(* ------------------------- idle scan: domains ------------------------- *)

\* the values of the AutoStop tag (NoKey: the instance has no such tag)
AutoStopValues == {NoKey, "false", "true"}

\* the tags of an instance that the scan reads or writes
NoTags == [AutoStop |-> NoKey, CostOptimization |-> NoKey, IdleDetectedAt |-> 0]

\* instance_info before the first iteration
NoInfo == [InstanceId |-> NoKey, Tags |-> NoTags, Status |-> NoKey, Recommendation |-> NoKey]

\* the CPUUtilization datapoints CloudWatch can return for one period; Average
\* and Maximum are in tenths of a percent
CpuDatapoints ==
    {[Average |-> 32, Maximum |-> 80],
     [Average |-> 100, Maximum |-> 100],
     [Average |-> 168, Maximum |-> 990]}

\* the NetworkIn and the NetworkOut datapoints (Sum, in bytes) CloudWatch can
\* return for a window
NetInWindows ==
    {<<[Sum |-> 250000]>>, <<[Sum |-> 524288]>>, <<[Sum |-> 524288], [Sum |-> 524288]>>}
NetOutWindows ==
    {<< >>, <<[Sum |-> 250000]>>, <<[Sum |-> 524288]>>}

\* the three metrics the scan fetches for an instance, in the order of the calls
Metrics == <<"CPUUtilization", "NetworkIn", "NetworkOut">>

\* the order in which ec2.instances yields the instances
InstanceOrder == <<"i-1", "i-2">>

(* ------------------------------- state -------------------------------- *)

VARIABLES
    kind,       \* the kind of resource the account holds
    inst,       \* provider: instance id -> lifecycle state, or Absent
    vol,        \* provider: volume id -> state, or Absent
    addr,       \* provider: allocation id -> <<address record>>, or << >>
    sg,         \* provider: group id -> <<group record>>, or << >>
    pc,         \* position of the invocation
    event,      \* event["dry_run"], or NoKey when the event has no such key
    action,     \* lambda_handler: action
    dry_run,    \* lambda_handler: dry_run
    targets,    \* the id list of the request (what the action's function iterates)
    idx,        \* position of the loop over targets (1-based)
    results,    \* resp["results"]: sequence of [id, tag]
    error,      \* result["error"], or NoKey
    reads,      \* validator reads made in this invocation, in order
    calls,      \* mutating provider calls issued in this invocation, in order
    logged,     \* outcome of the audit write of this invocation
    response,   \* what lambda_handler returned, or NoKey
    log_item,   \* lambda_handler: <<log_item>> once it is built, << >> before
    audit_table \* the DynamoDB table LOG_TABLE

\* the idle scan (Detect_idle_ec2_stale_resource.py)
VARIABLES
    tags,               \* provider: instance id -> the instance's tags
    table,              \* the DynamoDB table: instance id -> <<item>>, or << >>
    clock,              \* the time datetime.utcnow() shows
    scan_pc,            \* position of the scan
    timestamp,          \* lambda_handler: timestamp
    instances,          \* the running instances the scan iterates, in order
    pos,                \* position of the loop over instances (1-based)
    instance_info,      \* instance_info of the current iteration
    cpu_datapoints,     \* the datapoints of the last window fetched
    netin_datapoints,
    netout_datapoints,
    idle_instances,     \* idle_instances
    analyzed_instances, \* analyzed_instances
    scan_calls,         \* provider calls made by this scan, in order
    scan_response       \* what the scan returned, or NoKey

\* a second invocation of lambda_handler that runs at the same time: a real-run
\* stop_instances request for one instance
VARIABLES
    peer_pc,        \* position of the second invocation
    peer_target,    \* the instance id of its request, or NoKey
    peer_read,      \* what its describe_instances call returned, or NoKey
    peer_calls,     \* the mutating calls it has issued, with the state of the
                    \* instance when the call was made
    peer_result     \* its result for the instance, or NoKey

\* the dashboard (src/Web/test.py)
VARIABLES
    raw_items,      \* the items loaded from the detector's table
    df              \* the rows after enrich_with_live_instance_state

cleanup == <<kind, inst, vol, addr, sg, pc, event, action, dry_run, targets, idx,
             results, error, reads, calls, logged, response, log_item, audit_table>>

scan == <<tags, table, clock, scan_pc, timestamp, instances, pos, instance_info,
          cpu_datapoints, netin_datapoints, netout_datapoints, idle_instances,
          analyzed_instances, scan_calls, scan_response>>

peer == <<peer_pc, peer_target, peer_read, peer_calls, peer_result>>

dashboard == <<raw_items, df>>

vars == <<cleanup, scan, peer, dashboard>>

provider == <<kind, inst, vol, addr, sg>>

(* ----------------------- pure parts of the code ----------------------- *)

\* Python truth value of a JSON value: `if dry_run:`
Truthy(v) == v \in {JTrue, JStringFalse}

\* mutant: the default of a missing dry_run key is False
EventGetDryRun_default_false(flag) == IF flag = NoKey THEN JFalse ELSE flag

\* event.get("dry_run", True)
EventGetDryRun(flag) == IF flag = NoKey THEN JTrue ELSE flag

\* f"error:{str(e)}"
ErrorTag(m) == "error:" \o m
ErrorTags == {ErrorTag(m) : m \in ErrorMessages \cup {NotFoundMessage}}

\* f"Unknown action: {action}"
UnknownActionError(a) == "Unknown action: " \o (IF a = JNull THEN "None" ELSE a)

\* the ids a request of action a can name (event key instance_ids, volume_ids,
\* allocation_ids or group_ids)
TargetIds(a) ==
    CASE a \in {"stop_instances", "start_instances", "terminate_instances"} -> InstanceIds
      [] a = "delete_volumes" -> VolumeIds
      [] a = "release_eips" -> AllocationIds
      [] a = "delete_security_groups" -> GroupIds
      [] OTHER -> {}

\* the kind of resource a function works on
KindOf(a) ==
    CASE a \in {"stop_instances", "start_instances", "terminate_instances"} -> "instance"
      [] a = "delete_volumes" -> "volume"
      [] a = "release_eips" -> "address"
      [] a = "delete_security_groups" -> "group"
      [] OTHER -> "none"

\* a decision that is no result tag: go on to the next provider call
CallProvider == "call"

\* mutant: stop_instances without the dry-run gate
stop_decision_ungated(state, d) ==
    IF state = "stopped" THEN "already stopped" ELSE CallProvider

\* mutant: stop_instances without the state check
stop_decision_unchecked(state, d) ==
    IF Truthy(d) THEN "dry_run_ok" ELSE CallProvider

\* stop_instances, after the read: the state check and the dry-run gate
stop_decision(state, d) ==
    IF state = "stopped" THEN "already stopped"
    ELSE IF Truthy(d) THEN "dry_run_ok" ELSE CallProvider

\* mutant: start_instances takes a pending instance for a running one
start_decision_pending(state, d) ==
    IF state \in {"running", "pending"} THEN "already running"
    ELSE IF Truthy(d) THEN "dry_run_ok" ELSE CallProvider

\* start_instances, after the read
start_decision(state, d) ==
    IF state = "running" THEN "already running"
    ELSE IF Truthy(d) THEN "dry_run_ok" ELSE CallProvider

\* mutant: terminate_instances with the branches of the gate swapped
terminate_decision_inverted(d) ==
    IF Truthy(d) THEN CallProvider ELSE "dry_run_ok"

\* terminate_instances: the dry-run gate alone
terminate_decision(d) ==
    IF Truthy(d) THEN "dry_run_ok" ELSE CallProvider

\* mutant: delete_volumes without the state check
volume_decision_unchecked(state, d) ==
    IF Truthy(d) THEN "dry_run_ok" ELSE CallProvider

\* mutant: delete_volumes with the dry-run gate before the state check
volume_decision_gate_first(state, d) ==
    IF Truthy(d) THEN "dry_run_ok"
    ELSE IF state # "available" THEN "not_available_state:" \o state
    ELSE CallProvider

\* delete_volumes, after the read
volume_decision(state, d) ==
    IF state # "available" THEN "not_available_state:" \o state
    ELSE IF Truthy(d) THEN "dry_run_ok" ELSE CallProvider

\* mutant: release_eips with the dry-run gate before the checks
address_decision_gate_first(addrs, d) ==
    IF Truthy(d) THEN "dry_run_ok"
    ELSE IF addrs = << >> THEN "not_found"
    ELSE IF "AssociationId" \in DOMAIN addrs[1] THEN "associated"
    ELSE CallProvider

\* release_eips, after the read; addrs is the list describe_addresses returned
address_decision(addrs, d) ==
    IF addrs = << >> THEN "not_found"
    ELSE IF "AssociationId" \in DOMAIN addrs[1] THEN "associated"
    ELSE IF Truthy(d) THEN "dry_run_ok" ELSE CallProvider

\* mutant: delete_security_groups without the default-group check
group_decision_no_default(gids) ==
    IF gids = << >> THEN "not_found" ELSE CallProvider

\* delete_security_groups, after the first read; gids is the list
\* describe_security_groups returned
group_decision(gids) ==
    IF gids = << >> THEN "not_found"
    ELSE IF gids[1].GroupName = "default" THEN "default_group_skip"
    ELSE CallProvider

\* mutant: a group with network interfaces gets the tag of an associated address
eni_decision_associated(enis, d) ==
    IF enis # {} THEN "associated"
    ELSE IF Truthy(d) THEN "dry_run_ok" ELSE CallProvider

\* delete_security_groups, after the second read; enis is what
\* describe_network_interfaces returned for the group
eni_decision(enis, d) ==
    IF enis # {} THEN "in_use"
    ELSE IF Truthy(d) THEN "dry_run_ok" ELSE CallProvider

(* ------------------------------ provider ------------------------------ *)

\* the exceptions a provider call on a resource can raise
Raised(exists) == IF exists THEN ErrorMessages ELSE {NotFoundMessage}

\* effect of a stop / start / terminate call that returns
StopEffect(s) == IF s \in {"pending", "running"} THEN "stopping" ELSE s
StartEffect(s) == IF s = "stopped" THEN "pending" ELSE s
TerminateEffect(s) == IF s = "terminated" THEN s ELSE "shutting-down"

\* what describe_addresses / describe_security_groups return for one id
\* (the provider keeps each as that list: empty when there is no such record)
AddressList(a) == addr[a]
GroupList(g) == sg[g]
\* what describe_network_interfaces returns for the filter group-id = g
InterfaceList(g) == IF sg[g] = << >> THEN {} ELSE sg[g][1].enis

(* ------------------------------- Init --------------------------------- *)

NoInstances == [i \in InstanceIds |-> Absent]
NoVolumes == [v \in VolumeIds |-> Absent]
NoAddresses == [a \in AllocationIds |-> << >>]
NoGroups == [g \in GroupIds |-> << >>]

\* The account holds resources of one kind, each in any state or missing
\* (eip-missing is an allocation id the provider never had), and
\* the requests of a behaviour are those of that kind's functions (a function
\* of another kind would only meet ids the provider does not know, which a
\* missing resource of this kind already covers) and those of unknown actions.
\* no scan is under way, and none has left anything behind
NoScan ==
    /\ tags = [i \in InstanceIds |-> NoTags]
    /\ table = [i \in InstanceIds |-> << >>]
    /\ clock = 1
    /\ scan_pc = "idle"
    /\ timestamp = 0
    /\ instances = << >>
    /\ pos = 1
    /\ instance_info = NoInfo
    /\ cpu_datapoints = << >>
    /\ netin_datapoints = << >>
    /\ netout_datapoints = << >>
    /\ idle_instances = << >>
    /\ analyzed_instances = << >>
    /\ scan_calls = << >>
    /\ scan_response = NoKey

\* no cleanup request is being handled
NoRequest ==
    /\ pc = "idle"
    /\ event = NoKey
    /\ action = JNull
    /\ dry_run = JTrue
    /\ targets = << >>
    /\ idx = 1
    /\ results = << >>
    /\ error = NoKey
    /\ reads = << >>
    /\ calls = << >>
    /\ logged = NoKey
    /\ response = NoKey
    /\ log_item = << >>

\* no second invocation runs
NoPeer ==
    /\ peer_pc = "idle"
    /\ peer_target = NoKey
    /\ peer_read = NoKey
    /\ peer_calls = << >>
    /\ peer_result = NoKey

\* the dashboard has loaded nothing
NoDashboard ==
    /\ raw_items = << >>
    /\ df = << >>

\* the contents of LOG_TABLE are followed only where followed is TRUE: items
\* are the items the table holds, puts the items of the put_item calls that
\* returned, in the order of the calls
NotFollowed == [followed |-> FALSE, items |-> {}, puts |-> << >>]

Init ==
    /\ NoScan
    /\ audit_table = NotFollowed
    /\ \/ /\ kind = "instance"
          /\ inst \in [InstanceIds -> InstanceStates \cup {Absent}]
          /\ vol = NoVolumes /\ addr = NoAddresses /\ sg = NoGroups
       \/ /\ kind = "volume"
          /\ vol \in [VolumeIds -> VolumeStates \cup {Absent}]
          /\ inst = NoInstances /\ addr = NoAddresses /\ sg = NoGroups
       \/ /\ kind = "address"
          /\ addr \in {f \in [AllocationIds -> {<< >>} \cup {<<r>> : r \in UNION {AddressRecords(a) : a \in AllocationIds}}] :
                         /\ \A a \in AllocationIds : f[a] # << >> => f[a][1].AllocationId = a
                         /\ f["eip-missing"] = << >>}
          /\ inst = NoInstances /\ vol = NoVolumes /\ sg = NoGroups
       \/ /\ kind = "group"
          /\ sg \in [GroupIds -> {<< >>} \cup {<<r>> : r \in GroupRecords}]
          /\ inst = NoInstances /\ vol = NoVolumes /\ addr = NoAddresses
    /\ NoRequest
    /\ NoPeer
    /\ NoDashboard

(* ------------------------------ helpers ------------------------------- *)

\* mutant: an error result ends the loop
Emit_failfast(tag) ==
    /\ results' = Append(results, [id |-> targets[idx], tag |-> tag])
    /\ idx' = idx + 1
    /\ pc' = IF idx + 1 > Len(targets) \/ tag \in ErrorTags THEN "log" ELSE "loop"

\* resp["results"].append({id: tag}), and the loop moves to the next target;
\* after the last target the function returns and the handler goes on to the
\* audit write
Emit(tag) ==
    /\ results' = Append(results, [id |-> targets[idx], tag |-> tag])
    /\ idx' = idx + 1
    /\ pc' = IF idx + 1 > Len(targets) THEN "log" ELSE "loop"

\* a decision is a result tag, or the next provider call of the same target
Decide(decision, next) ==
    IF decision = CallProvider
    THEN pc' = next /\ UNCHANGED <<results, idx>>
    ELSE Emit(decision)

\* a read of the provider's state of targets[idx], which returned or raised
ReadReturned(op, state) ==
    reads' = Append(reads, [k |-> idx, id |-> targets[idx], op |-> op, raised |-> FALSE, state |-> state])
ReadRaised(op, state) ==
    reads' = Append(reads, [k |-> idx, id |-> targets[idx], op |-> op, raised |-> TRUE, state |-> state])
\* a mutating call for targets[idx], which returned (ok) or raised
Issue(op, ok) ==
    calls' = Append(calls, [k |-> idx, id |-> targets[idx], op |-> op, ok |-> ok])

request == <<event, action, dry_run, targets, error>>

(* --------------------------- lambda_handler --------------------------- *)

\* mutant: the dispatch has no else branch
lambda_handler_no_else(a, flag, ids, iterable) ==
    /\ pc = "idle"
    /\ event' = flag
    /\ action' = a
    /\ dry_run' = EventGetDryRun(flag)
    /\ idx' = 1
    /\ results' = << >>
    /\ reads' = << >>
    /\ calls' = << >>
    /\ logged' = NoKey
    /\ response' = NoKey
    /\ IF a \notin KnownActions
       THEN targets' = ids /\ error' = NoKey /\ pc' = "log"
       ELSE IF ~iterable
       THEN targets' = << >> /\ error' = NotIterable /\ pc' = "log"
       ELSE /\ targets' = ids
            /\ error' = NoKey
            /\ pc' = IF ids = << >> THEN "log" ELSE "loop"
    /\ UNCHANGED provider
    /\ log_item' = << >>
    /\ UNCHANGED audit_table
    /\ UNCHANGED <<scan, peer, dashboard>>

\* lambda_handler up to the call of the action's function: reads the event,
\* and for an unknown action or a target list that cannot be iterated sets
\* result["error"]; the ids of a request with an unknown action are read by
\* no branch of the dispatch
\* (iterable is FALSE for a request whose id list is null)
lambda_handler(a, flag, ids, iterable) ==
    /\ pc = "idle"
    /\ event' = flag
    /\ action' = a
    /\ dry_run' = EventGetDryRun(flag)
    /\ idx' = 1
    /\ results' = << >>
    /\ reads' = << >>
    /\ calls' = << >>
    /\ logged' = NoKey
    /\ response' = NoKey
    /\ IF a \notin KnownActions
       THEN targets' = ids /\ error' = UnknownActionError(a) /\ pc' = "log"
       ELSE IF ~iterable
       THEN targets' = << >> /\ error' = NotIterable /\ pc' = "log"
       ELSE /\ targets' = ids
            /\ error' = NoKey
            /\ pc' = IF ids = << >> THEN "log" ELSE "loop"
    /\ UNCHANGED provider
    /\ log_item' = << >>
    /\ UNCHANGED audit_table
    /\ UNCHANGED <<scan, peer, dashboard>>

\* the ids a request can carry in this account: those its action's function
\* reads, and for an unknown action any id list of the account's kind
SuppliedIds(a) ==
    IF a \in KnownActions THEN TargetIds(a)
    ELSE CASE kind = "instance" -> InstanceIds
           [] kind = "volume" -> VolumeIds
           [] kind = "address" -> AllocationIds
           [] OTHER -> GroupIds

Receive ==
    \E a \in {b \in Actions : KindOf(b) \in {kind, "none"}}, flag \in BooleanFlags :
        \/ \E ids \in SeqsUpTo(SuppliedIds(a), MaxTargets) : lambda_handler(a, flag, ids, TRUE)
        \/ a \in KnownActions /\ lambda_handler(a, flag, << >>, FALSE)

(* --------------------------- stop_instances --------------------------- *)

\* one iteration up to the mutating call: describe_instances, the state check
\* and the dry-run gate
stop_instances ==
    /\ pc = "loop" /\ action = "stop_instances"
    /\ LET i == targets[idx] IN
       \/ \E m \in Raised(inst[i] # Absent) :
            ReadRaised("describe_instances", inst[i]) /\ Emit(ErrorTag(m))
       \/ /\ inst[i] # Absent
          /\ ReadReturned("describe_instances", inst[i])
          /\ Decide(stop_decision(inst[i], dry_run), "call")
    /\ UNCHANGED <<provider, request, calls, logged, response>>
    /\ UNCHANGED <<log_item, audit_table>>
    /\ UNCHANGED <<scan, peer, dashboard>>

\* mutant: a stop call that raises is issued once more
stop_instances_call_retry ==
    /\ pc = "call" /\ action = "stop_instances"
    /\ LET i == targets[idx] IN
       \/ \E m \in Raised(inst[i] # Absent) :
            /\ Issue("stop_instances", FALSE)
            /\ IF \E n \in 1..Len(calls) : calls[n].k = idx
               THEN Emit(ErrorTag(m))
               ELSE UNCHANGED <<results, idx, pc>>
            /\ UNCHANGED inst
       \/ /\ inst[i] # Absent
          /\ Issue("stop_instances", TRUE)
          /\ inst' = [inst EXCEPT ![i] = StopEffect(@)]
          /\ Emit("stop_requested")
    /\ UNCHANGED <<kind, vol, addr, sg, request, reads, logged, response>>
    /\ UNCHANGED <<log_item, audit_table>>
    /\ UNCHANGED <<scan, peer, dashboard>>

\* ec2.stop_instances(InstanceIds=[i])
stop_instances_call ==
    /\ pc = "call" /\ action = "stop_instances"
    /\ LET i == targets[idx] IN
       \/ \E m \in Raised(inst[i] # Absent) :
            Issue("stop_instances", FALSE) /\ Emit(ErrorTag(m)) /\ UNCHANGED inst
       \/ /\ inst[i] # Absent
          /\ Issue("stop_instances", TRUE)
          /\ inst' = [inst EXCEPT ![i] = StopEffect(@)]
          /\ Emit("stop_requested")
    /\ UNCHANGED <<kind, vol, addr, sg, request, reads, logged, response>>
    /\ UNCHANGED <<log_item, audit_table>>
    /\ UNCHANGED <<scan, peer, dashboard>>

(* --------------------------- start_instances -------------------------- *)

start_instances ==
    /\ pc = "loop" /\ action = "start_instances"
    /\ LET i == targets[idx] IN
       \/ \E m \in Raised(inst[i] # Absent) :
            ReadRaised("describe_instances", inst[i]) /\ Emit(ErrorTag(m))
       \/ /\ inst[i] # Absent
          /\ ReadReturned("describe_instances", inst[i])
          /\ Decide(start_decision(inst[i], dry_run), "call")
    /\ UNCHANGED <<provider, request, calls, logged, response>>
    /\ UNCHANGED <<log_item, audit_table>>
    /\ UNCHANGED <<scan, peer, dashboard>>

\* ec2.start_instances(InstanceIds=[i])
start_instances_call ==
    /\ pc = "call" /\ action = "start_instances"
    /\ LET i == targets[idx] IN
       \/ \E m \in Raised(inst[i] # Absent) :
            Issue("start_instances", FALSE) /\ Emit(ErrorTag(m)) /\ UNCHANGED inst
       \/ /\ inst[i] # Absent
          /\ Issue("start_instances", TRUE)
          /\ inst' = [inst EXCEPT ![i] = StartEffect(@)]
          /\ Emit("start_requested")
    /\ UNCHANGED <<kind, vol, addr, sg, request, reads, logged, response>>
    /\ UNCHANGED <<log_item, audit_table>>
    /\ UNCHANGED <<scan, peer, dashboard>>

(* ------------------------- terminate_instances ------------------------ *)

\* one iteration: no read; the dry-run gate, then ec2.terminate_instances
terminate_instances ==
    /\ pc = "loop" /\ action = "terminate_instances"
    /\ LET i == targets[idx] IN
       IF terminate_decision(dry_run) # CallProvider
       THEN Emit(terminate_decision(dry_run)) /\ UNCHANGED <<inst, calls>>
       ELSE \/ \E m \in Raised(inst[i] # Absent) :
                 Issue("terminate_instances", FALSE) /\ Emit(ErrorTag(m)) /\ UNCHANGED inst
            \/ /\ inst[i] # Absent
               /\ Issue("terminate_instances", TRUE)
               /\ inst' = [inst EXCEPT ![i] = TerminateEffect(@)]
               /\ Emit("terminate_requested")
    /\ UNCHANGED <<kind, vol, addr, sg, request, reads, logged, response>>
    /\ UNCHANGED <<log_item, audit_table>>
    /\ UNCHANGED <<scan, peer, dashboard>>

(* ---------------------------- delete_volumes -------------------------- *)

delete_volumes ==
    /\ pc = "loop" /\ action = "delete_volumes"
    /\ LET v == targets[idx] IN
       \/ \E m \in Raised(vol[v] # Absent) :
            ReadRaised("describe_volumes", vol[v]) /\ Emit(ErrorTag(m))
       \/ /\ vol[v] # Absent
          /\ ReadReturned("describe_volumes", vol[v])
          /\ Decide(volume_decision(vol[v], dry_run), "call")
    /\ UNCHANGED <<provider, request, calls, logged, response>>
    /\ UNCHANGED <<log_item, audit_table>>
    /\ UNCHANGED <<scan, peer, dashboard>>

\* ec2.delete_volume(VolumeId=v)
delete_volumes_call ==
    /\ pc = "call" /\ action = "delete_volumes"
    /\ LET v == targets[idx] IN
       \/ \E m \in Raised(vol[v] # Absent) :
            Issue("delete_volume", FALSE) /\ Emit(ErrorTag(m)) /\ UNCHANGED vol
       \/ /\ vol[v] # Absent
          /\ Issue("delete_volume", TRUE)
          /\ vol' = [vol EXCEPT ![v] = "deleting"]
          /\ Emit("deleted")
    /\ UNCHANGED <<kind, inst, addr, sg, request, reads, logged, response>>
    /\ UNCHANGED <<log_item, audit_table>>
    /\ UNCHANGED <<scan, peer, dashboard>>

(* ----------------------------- release_eips --------------------------- *)

release_eips ==
    /\ pc = "loop" /\ action = "release_eips"
    /\ LET a == targets[idx] IN
       \/ \E m \in ErrorMessages :
            ReadRaised("describe_addresses", AddressList(a)) /\ Emit(ErrorTag(m))
       \/ /\ ReadReturned("describe_addresses", AddressList(a))
          /\ Decide(address_decision(AddressList(a), dry_run), "call")
    /\ UNCHANGED <<provider, request, calls, logged, response>>
    /\ UNCHANGED <<log_item, audit_table>>
    /\ UNCHANGED <<scan, peer, dashboard>>

\* ec2.release_address(AllocationId=a)
release_eips_call ==
    /\ pc = "call" /\ action = "release_eips"
    /\ LET a == targets[idx] IN
       \/ \E m \in Raised(addr[a] # << >>) :
            Issue("release_address", FALSE) /\ Emit(ErrorTag(m)) /\ UNCHANGED addr
       \/ /\ addr[a] # << >>
          /\ Issue("release_address", TRUE)
          /\ addr' = [addr EXCEPT ![a] = << >>]
          /\ Emit("released")
    /\ UNCHANGED <<kind, inst, vol, sg, request, reads, logged, response>>
    /\ UNCHANGED <<log_item, audit_table>>
    /\ UNCHANGED <<scan, peer, dashboard>>

(* ------------------------ delete_security_groups ---------------------- *)

\* one iteration up to the second read: describe_security_groups, the
\* not-found check and the default-group check
delete_security_groups ==
    /\ pc = "loop" /\ action = "delete_security_groups"
    /\ LET g == targets[idx] IN
       \/ \E m \in ErrorMessages :
            ReadRaised("describe_security_groups", GroupList(g)) /\ Emit(ErrorTag(m))
       \/ /\ ReadReturned("describe_security_groups", GroupList(g))
          /\ Decide(group_decision(GroupList(g)), "enis")
    /\ UNCHANGED <<provider, request, calls, logged, response>>
    /\ UNCHANGED <<log_item, audit_table>>
    /\ UNCHANGED <<scan, peer, dashboard>>

\* the second read: describe_network_interfaces, the in-use check and the
\* dry-run gate
delete_security_groups_enis ==
    /\ pc = "enis" /\ action = "delete_security_groups"
    /\ LET g == targets[idx] IN
       \/ \E m \in ErrorMessages :
            ReadRaised("describe_network_interfaces", InterfaceList(g)) /\ Emit(ErrorTag(m))
       \/ /\ ReadReturned("describe_network_interfaces", InterfaceList(g))
          /\ Decide(eni_decision(InterfaceList(g), dry_run), "call")
    /\ UNCHANGED <<provider, request, calls, logged, response>>
    /\ UNCHANGED <<log_item, audit_table>>
    /\ UNCHANGED <<scan, peer, dashboard>>

\* ec2.delete_security_group(GroupId=g)
delete_security_groups_call ==
    /\ pc = "call" /\ action = "delete_security_groups"
    /\ LET g == targets[idx] IN
       \/ \E m \in Raised(sg[g] # << >>) :
            Issue("delete_security_group", FALSE) /\ Emit(ErrorTag(m)) /\ UNCHANGED sg
       \/ /\ sg[g] # << >>
          /\ Issue("delete_security_group", TRUE)
          /\ sg' = [sg EXCEPT ![g] = << >>]
          /\ Emit("deleted")
    /\ UNCHANGED <<kind, inst, vol, addr, request, reads, logged, response>>
    /\ UNCHANGED <<log_item, audit_table>>
    /\ UNCHANGED <<scan, peer, dashboard>>

(* ---------------------- audit write and return ------------------------ *)

\* mutant: a failed target sets the top-level error
Result_error_on_failure ==
    [action |-> action, dry_run |-> dry_run,
     details |-> IF error = NoKey /\ \A k \in 1..Len(results) : results[k].tag \notin ErrorTags
                 THEN <<[action |-> action, requested |-> targets, results |-> results]>>
                 ELSE << >>,
     error |-> IF \E k \in 1..Len(results) : results[k].tag \in ErrorTags
               THEN "error" ELSE error]

\* the result the handler serialises: details when the function returned,
\* error otherwise
Result ==
    [action |-> action, dry_run |-> dry_run,
     details |-> IF error = NoKey
                 THEN <<[action |-> action, requested |-> targets, results |-> results]>>
                 ELSE << >>,
     error |-> error]

\* str(result): Python's rendering of the result
Str(result) == [str |-> result]

\* mutant: the item carries the result as it was before the dispatch
LogItem_initial ==
    [ActionId |-> <<action, clock>>, Action |-> action, Timestamp |-> clock,
     DryRun |-> dry_run,
     Result |-> Str([action |-> action, dry_run |-> dry_run, details |-> << >>, error |-> NoKey])]

\* the item the handler builds for the audit write
LogItem ==
    [ActionId |-> <<action, clock>>, Action |-> action, Timestamp |-> clock,
     DryRun |-> dry_run, Result |-> Str(Result)]

\* table.put_item(Item=item): the item takes the place of the item with its
\* key, if the table holds one
PutItem(t, item) ==
    IF t.followed
    THEN [t EXCEPT !.items = {x \in @ : x.ActionId # item.ActionId} \cup {item},
                   !.puts = Append(@, item)]
    ELSE t

\* mutant: a failed audit write reaches the handler's result
log_action_propagates ==
    /\ pc = "log"
    /\ log_item' = <<LogItem>>
    /\ \E written \in BOOLEAN :
         /\ logged' = IF written THEN "written" ELSE "failed"
         /\ audit_table' = IF written THEN PutItem(audit_table, LogItem) ELSE audit_table
         /\ response' = IF written
                        THEN [statusCode |-> 200, body |-> Result]
                        ELSE [statusCode |-> 200,
                              body |-> [Result EXCEPT !.details = << >>, !.error = "audit"]]
    /\ pc' = "done"
    /\ UNCHANGED <<provider, request, idx, results, reads, calls>>
    /\ UNCHANGED <<scan, peer, dashboard>>

\* log_action(log_item), whose failure is swallowed, and the return
log_action ==
    /\ pc = "log"
    /\ log_item' = <<LogItem>>
    /\ \E written \in BOOLEAN :
         /\ logged' = IF written THEN "written" ELSE "failed"
         /\ audit_table' = IF written THEN PutItem(audit_table, LogItem) ELSE audit_table
    /\ response' = [statusCode |-> 200, body |-> Result]
    /\ pc' = "done"
    /\ UNCHANGED <<provider, request, idx, results, reads, calls>>
    /\ UNCHANGED <<scan, peer, dashboard>>

\* the invocation is over: its locals are gone and the function can be invoked
\* again
invocation_ends ==
    /\ pc = "done"
    /\ pc' = "idle"
    /\ event' = NoKey
    /\ action' = JNull
    /\ dry_run' = JTrue
    /\ targets' = << >>
    /\ idx' = 1
    /\ results' = << >>
    /\ error' = NoKey
    /\ reads' = << >>
    /\ calls' = << >>
    /\ logged' = NoKey
    /\ response' = NoKey
    /\ UNCHANGED provider
    /\ log_item' = << >>
    /\ UNCHANGED audit_table
    /\ UNCHANGED <<scan, peer, dashboard>>

(* ------------------------- provider lifecycle ------------------------- *)

\* the provider completes a transition it has begun
Settled(s) ==
    CASE s = "pending" -> "running"
      [] s = "stopping" -> "stopped"
      [] s = "shutting-down" -> "terminated"
      [] s = "deleting" -> Absent
      [] s = "creating" -> "available"
      [] OTHER -> s

provider_settles ==
    /\ \/ \E i \in InstanceIds :
            Settled(inst[i]) # inst[i] /\ inst' = [inst EXCEPT ![i] = Settled(@)] /\ UNCHANGED vol
       \/ \E v \in VolumeIds :
            Settled(vol[v]) # vol[v] /\ vol' = [vol EXCEPT ![v] = Settled(@)] /\ UNCHANGED inst
    /\ UNCHANGED <<kind, addr, sg, pc, request, idx, results, reads, calls, logged, response>>
    /\ UNCHANGED <<log_item, audit_table>>
    /\ UNCHANGED <<scan, peer, dashboard>>

(* ---------------------------- specification --------------------------- *)

Next ==
    \/ Receive
    \/ stop_instances
    \/ stop_instances_call
    \/ start_instances
    \/ start_instances_call
    \/ terminate_instances
    \/ delete_volumes
    \/ delete_volumes_call
    \/ release_eips
    \/ release_eips_call
    \/ delete_security_groups
    \/ delete_security_groups_enis
    \/ delete_security_groups_call
    \/ log_action
    \/ invocation_ends
    \/ provider_settles

Spec == Init /\ [][Next]_vars

(* ------------------ requests with any dry_run value ------------------- *)

\* a request whose dry_run entry is any JSON value, or is missing
ReceiveAnyFlag ==
    \E a \in {b \in Actions : KindOf(b) \in {kind, "none"}}, flag \in DryRunValues \cup {NoKey} :
        \/ \E ids \in SeqsUpTo(SuppliedIds(a), MaxTargets) : lambda_handler(a, flag, ids, TRUE)
        \/ a \in KnownActions /\ lambda_handler(a, flag, << >>, FALSE)

NextAnyFlag ==
    \/ ReceiveAnyFlag
    \/ stop_instances
    \/ stop_instances_call
    \/ start_instances
    \/ start_instances_call
    \/ terminate_instances
    \/ delete_volumes
    \/ delete_volumes_call
    \/ release_eips
    \/ release_eips_call
    \/ delete_security_groups
    \/ delete_security_groups_enis
    \/ delete_security_groups_call
    \/ log_action
    \/ invocation_ends
    \/ provider_settles

SpecAnyFlag == Init /\ [][NextAnyFlag]_vars

(* ------------------- other users of the account ----------------------- *)

\* Between two calls of an invocation another user of the account attaches an
\* available volume, associates an address, or puts a network interface into a
\* group.
volume_attached ==
    /\ \E v \in VolumeIds :
          vol[v] = "available" /\ vol' = [vol EXCEPT ![v] = "in-use"]
    /\ UNCHANGED <<kind, inst, addr, sg, pc, request, idx, results, reads, calls, logged,
                   response, log_item, audit_table>>
    /\ UNCHANGED <<scan, peer, dashboard>>

address_associated ==
    /\ \E a \in AllocationIds :
          /\ addr[a] = <<[AllocationId |-> a]>>
          /\ addr' = [addr EXCEPT ![a] = <<[AllocationId |-> a, AssociationId |-> "eipassoc-1"]>>]
    /\ UNCHANGED <<kind, inst, vol, sg, pc, request, idx, results, reads, calls, logged,
                   response, log_item, audit_table>>
    /\ UNCHANGED <<scan, peer, dashboard>>

interface_attached ==
    /\ \E g \in GroupIds :
          /\ sg[g] # << >>
          /\ sg[g][1].enis = {}
          /\ sg' = [sg EXCEPT ![g] = <<[@[1] EXCEPT !.enis = {"eni-1"}]>>]
    /\ UNCHANGED <<kind, inst, vol, addr, pc, request, idx, results, reads, calls, logged,
                   response, log_item, audit_table>>
    /\ UNCHANGED <<scan, peer, dashboard>>

NextRace ==
    \/ Next
    \/ volume_attached
    \/ address_associated
    \/ interface_attached

SpecRace == Init /\ [][NextRace]_vars

(* ------------------------ a second invocation ------------------------- *)

\* the second invocation receives {"action": "stop_instances",
\* "instance_ids": [i], "dry_run": false}
peer_receives ==
    /\ peer_pc = "idle"
    /\ \E i \in InstanceIds : peer_target' = i
    /\ peer_pc' = "loop"
    /\ UNCHANGED <<peer_read, peer_calls, peer_result>>
    /\ UNCHANGED <<cleanup, scan, dashboard>>

\* its iteration up to the mutating call: describe_instances, the state check
\* and the dry-run gate
peer_stop_instances ==
    /\ peer_pc = "loop"
    /\ LET i == peer_target IN
       \/ \E m \in Raised(inst[i] # Absent) :
            /\ peer_result' = ErrorTag(m)
            /\ peer_pc' = "log"
            /\ UNCHANGED peer_read
       \/ /\ inst[i] # Absent
          /\ peer_read' = inst[i]
          /\ IF stop_decision(inst[i], JFalse) = CallProvider
             THEN peer_pc' = "call" /\ UNCHANGED peer_result
             ELSE peer_pc' = "log" /\ peer_result' = stop_decision(inst[i], JFalse)
    /\ UNCHANGED <<peer_target, peer_calls>>
    /\ UNCHANGED <<cleanup, scan, dashboard>>

\* its ec2.stop_instances(InstanceIds=[i])
peer_stop_instances_call ==
    /\ peer_pc = "call"
    /\ LET i == peer_target IN
       \/ \E m \in Raised(inst[i] # Absent) :
            /\ peer_calls' = Append(peer_calls, [id |-> i, op |-> "stop_instances",
                                                 ok |-> FALSE, state |-> inst[i]])
            /\ peer_result' = ErrorTag(m)
            /\ UNCHANGED inst
       \/ /\ inst[i] # Absent
          /\ peer_calls' = Append(peer_calls, [id |-> i, op |-> "stop_instances",
                                               ok |-> TRUE, state |-> inst[i]])
          /\ inst' = [inst EXCEPT ![i] = StopEffect(@)]
          /\ peer_result' = "stop_requested"
    /\ peer_pc' = "log"
    /\ UNCHANGED <<peer_target, peer_read>>
    /\ UNCHANGED <<kind, vol, addr, sg, pc, request, idx, results, reads, calls, logged,
                   response, log_item, audit_table>>
    /\ UNCHANGED <<scan, dashboard>>

\* the item of its audit write
PeerLogItem ==
    [ActionId |-> <<"stop_instances", clock>>, Action |-> "stop_instances",
     Timestamp |-> clock, DryRun |-> JFalse,
     Result |-> Str([action |-> "stop_instances", dry_run |-> JFalse,
                     details |-> <<[action |-> "stop_instances",
                                    requested |-> <<peer_target>>,
                                    results |-> <<[id |-> peer_target, tag |-> peer_result]>>]>>,
                     error |-> NoKey])]

\* its audit write and its return
peer_log_action ==
    /\ peer_pc = "log"
    /\ \E written \in BOOLEAN :
         audit_table' = IF written THEN PutItem(audit_table, PeerLogItem) ELSE audit_table
    /\ peer_pc' = "done"
    /\ UNCHANGED <<peer_target, peer_read, peer_calls, peer_result>>
    /\ UNCHANGED <<kind, inst, vol, addr, sg, pc, request, idx, results, reads, calls, logged,
                   response, log_item>>
    /\ UNCHANGED <<scan, dashboard>>

\* The account holds instances; two invocations run at the same time.
InitPeer == kind = "instance" /\ Init

\* the first invocation receives a real-run stop_instances request
ReceiveStop ==
    /\ kind = "instance"
    /\ \E ids \in SeqsUpTo(InstanceIds, MaxTargets) :
         lambda_handler("stop_instances", JFalse, ids, TRUE)

NextPeer ==
    \/ ReceiveStop
    \/ stop_instances
    \/ stop_instances_call
    \/ log_action
    \/ invocation_ends
    \/ provider_settles
    \/ peer_receives
    \/ peer_stop_instances
    \/ peer_stop_instances_call
    \/ peer_log_action

SpecPeer == InitPeer /\ [][NextPeer]_vars

(* ---------------------------- audit store ----------------------------- *)

\* The account holds addresses; LOG_TABLE is empty and its contents are
\* followed.
InitAudit ==
    /\ NoScan
    /\ kind = "address"
    /\ inst = NoInstances /\ vol = NoVolumes /\ sg = NoGroups
    /\ addr \in {f \in [AllocationIds -> {<< >>} \cup {<<r>> : r \in UNION {AddressRecords(a) : a \in AllocationIds}}] :
                         /\ \A a \in AllocationIds : f[a] # << >> => f[a][1].AllocationId = a
                         /\ f["eip-missing"] = << >>}
    /\ NoRequest
    /\ NoPeer
    /\ NoDashboard
    /\ audit_table = [followed |-> TRUE, items |-> {}, puts |-> << >>]

\* time passes: datetime.utcnow() shows the next instant
tick ==
    /\ clock < MaxClock
    /\ clock' = clock + 1
    /\ UNCHANGED <<cleanup, tags, table, scan_pc, timestamp, instances, pos, instance_info,
                   cpu_datapoints, netin_datapoints, netout_datapoints, idle_instances,
                   analyzed_instances, scan_calls, scan_response>>
    /\ UNCHANGED <<peer, dashboard>>

\* a request is received while fewer than MaxEntries audit writes have returned
ReceiveLogged == Len(audit_table.puts) < MaxEntries /\ Receive

NextAudit ==
    \/ ReceiveLogged
    \/ release_eips
    \/ release_eips_call
    \/ log_action
    \/ invocation_ends
    \/ tick

SpecAudit == InitAudit /\ [][NextAudit]_vars

(* ============================== idle scan ============================= *)

\* the bound on the CPU datapoints of a window
MaxSamples == 2

\* Settings of the scan
CPU_THRESHOLD == 10
NETWORK_THRESHOLD == 1048576

\* a percentage in the unit of the datapoints (tenths of a percent)
Percent(p) == 10 * p

\* sum(dp['Average'] for dp in datapoints), sum(dp['Sum'] for dp in datapoints)
RECURSIVE SumAverage(_)
SumAverage(dps) == IF dps = << >> THEN 0 ELSE Head(dps).Average + SumAverage(Tail(dps))
RECURSIVE SumSum(_)
SumSum(dps) == IF dps = << >> THEN 0 ELSE Head(dps).Sum + SumSum(Tail(dps))

\* total_network = total_net_in + total_net_out
total_network(netin, netout) == SumSum(netin) + SumSum(netout)

\* avg_cpu < threshold, for avg_cpu = sum of the averages / number of
\* datapoints of a window that has datapoints
avg_cpu_below(cpu, threshold) == SumAverage(cpu) < Percent(threshold) * Len(cpu)

\* mutant: the network total is not looked at
Status_cpu_only(cpu, netin, netout) ==
    IF cpu = << >> THEN "NoData"
    ELSE IF avg_cpu_below(cpu, CPU_THRESHOLD) THEN "Idle" ELSE "Active"

\* mutant: a window without CPU datapoints counts as zero utilisation
Status_empty_is_zero(cpu, netin, netout) ==
    IF SumAverage(cpu) < Percent(CPU_THRESHOLD) * (IF cpu = << >> THEN 1 ELSE Len(cpu))
       /\ total_network(netin, netout) < NETWORK_THRESHOLD
    THEN "Idle"
    ELSE "Active"

\* mutant: the thresholds are inclusive
Status_inclusive(cpu, netin, netout) ==
    IF cpu = << >> THEN "NoData"
    ELSE IF SumAverage(cpu) <= Percent(CPU_THRESHOLD) * Len(cpu)
            /\ total_network(netin, netout) <= NETWORK_THRESHOLD
         THEN "Idle"
         ELSE "Active"

\* the Status the scan gives to a window
Status(cpu, netin, netout) ==
    IF cpu = << >> THEN "NoData"
    ELSE IF avg_cpu_below(cpu, CPU_THRESHOLD)
            /\ total_network(netin, netout) < NETWORK_THRESHOLD
         THEN "Idle"
         ELSE "Active"

\* the Recommendation that goes with a Status
Recommendation(status) ==
    CASE status = "NoData" -> "Enable detailed monitoring"
      [] status = "Idle" -> "Consider stopping instance"
      [] OTHER -> "Keep running"

\* ec2.instances.filter(instance-state-name = running)
RunningInstances == SelectSeq(InstanceOrder, LAMBDA i : inst[i] = "running")

\* the provider calls of a window fetch in which the first n calls were made
\* and all but the last returned (failed), or all returned
MetricCalls(i, n, failed) ==
    [k \in 1..n |-> [id |-> i, op |-> Metrics[k], ok |-> ~(failed /\ k = n)]]

scan_locals == <<timestamp, instances, idle_instances, analyzed_instances, scan_response>>
datapoints == <<cpu_datapoints, netin_datapoints, netout_datapoints>>

(* ------------------------------- Init --------------------------------- *)

\* The account holds the two instances, each running or stopped and with any
\* AutoStop tag; the table is empty and no cleanup request is made.
InitScan ==
    /\ kind = "instance"
    /\ inst \in [InstanceIds -> {"running", "stopped"}]
    /\ vol = NoVolumes /\ addr = NoAddresses /\ sg = NoGroups
    /\ NoRequest
    /\ NoPeer
    /\ NoDashboard
    /\ audit_table = NotFollowed
    /\ tags \in [InstanceIds -> {[NoTags EXCEPT !.AutoStop = v] : v \in AutoStopValues}]
    /\ table = [i \in InstanceIds |-> << >>]
    /\ clock = 1
    /\ scan_pc = "idle"
    /\ timestamp = 0
    /\ instances = << >>
    /\ pos = 1
    /\ instance_info = NoInfo
    /\ cpu_datapoints = << >>
    /\ netin_datapoints = << >>
    /\ netout_datapoints = << >>
    /\ idle_instances = << >>
    /\ analyzed_instances = << >>
    /\ scan_calls = << >>
    /\ scan_response = NoKey

(* ------------------------------ actions ------------------------------- *)

\* lambda_handler up to the loop: the timestamp, the running instances
scan_starts ==
    /\ scan_pc = "idle"
    /\ timestamp' = clock
    /\ instances' = RunningInstances
    /\ pos' = 1
    /\ idle_instances' = << >>
    /\ analyzed_instances' = << >>
    /\ scan_calls' = << >>
    /\ scan_response' = NoKey
    /\ scan_pc' = "loop"
    /\ UNCHANGED <<tags, table, clock, instance_info, datapoints, cleanup, peer, dashboard>>

\* mutant: no instance is skipped
next_instance_no_skip ==
    /\ scan_pc = "loop" /\ pos <= Len(instances)
    /\ LET i == instances[pos]
           info == [InstanceId |-> i, Tags |-> tags[i], Status |-> NoKey, Recommendation |-> NoKey]
       IN  /\ instance_info' = info
           /\ pos' = pos /\ scan_pc' = "fetch"
    /\ UNCHANGED <<tags, table, clock, scan_locals, datapoints, scan_calls, cleanup, peer, dashboard>>

\* the head of an iteration: instance_info, and the AutoStop=false skip
next_instance ==
    /\ scan_pc = "loop" /\ pos <= Len(instances)
    /\ LET i == instances[pos]
           info == [InstanceId |-> i, Tags |-> tags[i], Status |-> NoKey, Recommendation |-> NoKey]
       IN  /\ instance_info' = info
           /\ IF info.Tags.AutoStop = "false"
              THEN pos' = pos + 1 /\ scan_pc' = "loop"
              ELSE pos' = pos /\ scan_pc' = "fetch"
    /\ UNCHANGED <<tags, table, clock, scan_locals, datapoints, scan_calls, cleanup, peer, dashboard>>

\* the Status and the Recommendation of the window just fetched go into
\* instance_info; a NoData instance is appended to analyzed_instances and the
\* loop continues, an Idle one is appended to idle_instances and goes on to the
\* tagging, an Active one is appended to analyzed_instances and goes on to the
\* write
Classify(cpu, netin, netout) ==
    LET status == Status(cpu, netin, netout)
        info == [instance_info EXCEPT !.Status = status,
                                      !.Recommendation = Recommendation(status)]
    IN  /\ instance_info' = info
        /\ CASE status = "NoData" ->
                  /\ analyzed_instances' = Append(analyzed_instances, info)
                  /\ pos' = pos + 1 /\ scan_pc' = "loop"
                  /\ UNCHANGED idle_instances
             [] status = "Idle" ->
                  /\ idle_instances' = Append(idle_instances, info)
                  /\ pos' = pos /\ scan_pc' = "tag"
                  /\ UNCHANGED analyzed_instances
             [] OTHER ->
                  /\ analyzed_instances' = Append(analyzed_instances, info)
                  /\ pos' = pos /\ scan_pc' = "put"
                  /\ UNCHANGED idle_instances

\* mutant: when the NetworkOut call raises, the instance is classified with the
\* datapoints fetched so far
get_metric_statistics_partial ==
    /\ scan_pc = "fetch"
    /\ LET i == instances[pos] IN
       \/ \E n \in 1..(Len(Metrics) - 1) :
            /\ scan_calls' = scan_calls \o MetricCalls(i, n, TRUE)
            /\ pos' = pos + 1 /\ scan_pc' = "loop"
            /\ UNCHANGED <<instance_info, datapoints, idle_instances, analyzed_instances>>
       \/ \E cpu \in SeqsUpTo(CpuDatapoints, MaxSamples),
             netin \in NetInWindows, netout \in NetOutWindows, failed \in BOOLEAN :
            /\ scan_calls' = scan_calls \o MetricCalls(i, Len(Metrics), failed)
            /\ cpu_datapoints' = cpu
            /\ netin_datapoints' = netin
            /\ netout_datapoints' = IF failed THEN << >> ELSE netout
            /\ Classify(cpu, netin, IF failed THEN << >> ELSE netout)
    /\ UNCHANGED <<tags, table, clock, timestamp, instances, scan_response, cleanup, peer, dashboard>>

\* the three get_metric_statistics calls of an iteration and the
\* classification; a call that raises ends the iteration in the except clause
get_metric_statistics ==
    /\ scan_pc = "fetch"
    /\ LET i == instances[pos] IN
       \/ \E n \in 1..Len(Metrics) :
            /\ scan_calls' = scan_calls \o MetricCalls(i, n, TRUE)
            /\ pos' = pos + 1 /\ scan_pc' = "loop"
            /\ UNCHANGED <<instance_info, datapoints, idle_instances, analyzed_instances>>
       \/ \E cpu \in SeqsUpTo(CpuDatapoints, MaxSamples),
             netin \in NetInWindows, netout \in NetOutWindows :
            /\ scan_calls' = scan_calls \o MetricCalls(i, Len(Metrics), FALSE)
            /\ cpu_datapoints' = cpu
            /\ netin_datapoints' = netin
            /\ netout_datapoints' = netout
            /\ Classify(cpu, netin, netout)
    /\ UNCHANGED <<tags, table, clock, timestamp, instances, scan_response, cleanup, peer, dashboard>>

\* mutant: a tagging call that raises ends the iteration
create_tags_aborts ==
    /\ scan_pc = "tag"
    /\ LET i == instances[pos] IN
       \E ok \in BOOLEAN :
          /\ scan_calls' = Append(scan_calls, [id |-> i, op |-> "create_tags", ok |-> ok])
          /\ tags' = IF ok
                     THEN [tags EXCEPT ![i].CostOptimization = "CandidateForStop",
                                       ![i].IdleDetectedAt = timestamp]
                     ELSE tags
          /\ IF ok
             THEN /\ analyzed_instances' = Append(analyzed_instances, instance_info)
                  /\ pos' = pos /\ scan_pc' = "put"
             ELSE /\ analyzed_instances' = analyzed_instances
                  /\ pos' = pos + 1 /\ scan_pc' = "loop"
    /\ UNCHANGED <<table, clock, timestamp, instances, instance_info, datapoints,
                   idle_instances, scan_response, cleanup, peer, dashboard>>

\* instance.create_tags of an Idle instance, whose failure is only logged, and
\* analyzed_instances.append
create_tags ==
    /\ scan_pc = "tag"
    /\ LET i == instances[pos] IN
       \E ok \in BOOLEAN :
          /\ scan_calls' = Append(scan_calls, [id |-> i, op |-> "create_tags", ok |-> ok])
          /\ tags' = IF ok
                     THEN [tags EXCEPT ![i].CostOptimization = "CandidateForStop",
                                       ![i].IdleDetectedAt = timestamp]
                     ELSE tags
    /\ analyzed_instances' = Append(analyzed_instances, instance_info)
    /\ scan_pc' = "put"
    /\ UNCHANGED <<table, clock, timestamp, instances, pos, instance_info, datapoints,
                   idle_instances, scan_response, cleanup, peer, dashboard>>

\* the item of an instance in the table
Item(info, t) ==
    [InstanceId |-> info.InstanceId, EvaluationTimestamp |-> t,
     Status |-> info.Status, Recommendation |-> info.Recommendation]

\* table.put_item of an Idle or Active instance; when it raises the except
\* clause logs the error and the loop continues
put_item ==
    /\ scan_pc = "put"
    /\ LET i == instances[pos] IN
       \E ok \in BOOLEAN :
          /\ scan_calls' = Append(scan_calls, [id |-> i, op |-> "put_item", ok |-> ok])
          /\ table' = IF ok THEN [table EXCEPT ![i] = <<Item(instance_info, timestamp)>>]
                      ELSE table
    /\ pos' = pos + 1
    /\ scan_pc' = "loop"
    /\ UNCHANGED <<tags, clock, scan_locals, instance_info, datapoints, cleanup, peer, dashboard>>

\* mutant: every analyzed instance that is not Idle counts as active
Summary_rest_is_active ==
    [timestamp |-> timestamp,
     summary |-> [total_instances_analyzed |-> Len(analyzed_instances),
                  idle_instances |-> Len(idle_instances),
                  active_instances |->
                      Len(SelectSeq(analyzed_instances, LAMBDA i : i.Status # "Idle"))],
     idle_instances |-> idle_instances,
     all_instances |-> analyzed_instances]

\* the summary of the scan
Summary ==
    [timestamp |-> timestamp,
     summary |-> [total_instances_analyzed |-> Len(analyzed_instances),
                  idle_instances |-> Len(idle_instances),
                  active_instances |->
                      Len(SelectSeq(analyzed_instances, LAMBDA i : i.Status = "Active"))],
     idle_instances |-> idle_instances,
     all_instances |-> analyzed_instances]

\* after the loop: the summary and the return
scan_returns ==
    /\ scan_pc = "loop" /\ pos > Len(instances)
    /\ scan_response' = [statusCode |-> 200, body |-> Summary]
    /\ scan_pc' = "done"
    /\ UNCHANGED <<tags, table, clock, timestamp, instances, pos, instance_info, datapoints,
                   idle_instances, analyzed_instances, scan_calls, cleanup, peer, dashboard>>

NextScan ==
    \/ scan_starts
    \/ next_instance
    \/ get_metric_statistics
    \/ create_tags
    \/ put_item
    \/ scan_returns

SpecScan == InitScan /\ [][NextScan]_vars

(* ============================= dashboard ============================== *)
(* The dashboard (src/Web/test.py) loads the detector's items, looks up the *)
(* live state of their instances and computes the status it shows.          *)

\* round(x, 2) of x = sum / n, where sum is in tenths and the result in
\* hundredths; a tie goes to the even neighbour
Round2(sum, n) ==
    LET q == (10 * sum) \div n
        r == (10 * sum) % n
    IN  IF 2 * r < n THEN q
        ELSE IF 2 * r > n THEN q + 1
        ELSE IF q % 2 = 0 THEN q ELSE q + 1

\* the item the detector writes for an instance with the window cpu, netin,
\* netout, as far as the dashboard reads it (AvgCPU in hundredths of a percent)
Record(i, cpu, netin, netout) ==
    [InstanceId |-> i,
     AvgCPU |-> Round2(SumAverage(cpu), Len(cpu)),
     TotalNetworkBytes |-> total_network(netin, netout),
     Status |-> Status(cpu, netin, netout)]

\* str.capitalize() of an instance state
Capitalize(st) ==
    CASE st = "pending" -> "Pending"
      [] st = "running" -> "Running"
      [] st = "stopping" -> "Stopping"
      [] st = "stopped" -> "Stopped"
      [] st = "shutting-down" -> "Shutting-down"
      [] st = "terminated" -> "Terminated"
      [] OTHER -> "Unknown"

\* live_states.get(iid, "terminated"): the state describe_instances shows,
\* terminated for an instance it does not show or when the lookup failed
map_state(iid, fetched) ==
    IF fetched /\ inst[iid] # Absent THEN inst[iid] ELSE "terminated"

\* the status the dashboard shows for a row
compute_status(row) ==
    IF row.InstanceState # "running" THEN Capitalize(row.InstanceState)
    ELSE IF row.AvgCPU < 100 * 10 THEN "Idle" ELSE "Active"

\* The account holds instances, and the dashboard has loaded the item the
\* detector wrote for one of them.
InitDashboard ==
    /\ NoScan
    /\ kind = "instance"
    /\ inst \in [InstanceIds -> {"running", "stopped", Absent}]
    /\ vol = NoVolumes /\ addr = NoAddresses /\ sg = NoGroups
    /\ NoRequest
    /\ NoPeer
    /\ audit_table = NotFollowed
    /\ raw_items \in {<<Record(i, cpu, netin, netout)>> :
                         i \in InstanceIds,
                         cpu \in SeqsUpTo(CpuDatapoints, MaxSamples) \ {<< >>},
                         netin \in NetInWindows, netout \in NetOutWindows}
    /\ df = << >>

\* enrich_with_live_instance_state(df): InstanceState from the live lookup,
\* Status from compute_status
enrich_with_live_instance_state ==
    /\ raw_items # << >> /\ df = << >>
    /\ \E fetched \in BOOLEAN :
         df' = [k \in 1..Len(raw_items) |->
                  LET row == [InstanceId |-> raw_items[k].InstanceId,
                              AvgCPU |-> raw_items[k].AvgCPU,
                              TotalNetworkBytes |-> raw_items[k].TotalNetworkBytes,
                              InstanceState |-> map_state(raw_items[k].InstanceId, fetched)]
                  IN  [InstanceId |-> row.InstanceId,
                       AvgCPU |-> row.AvgCPU,
                       TotalNetworkBytes |-> row.TotalNetworkBytes,
                       InstanceState |-> row.InstanceState,
                       Status |-> compute_status(row)]]
    /\ UNCHANGED raw_items
    /\ UNCHANGED <<cleanup, scan, peer>>

NextDashboard == enrich_with_live_instance_state

SpecDashboard == InitDashboard /\ [][NextDashboard]_vars

(* ============================== claims ================================ *)

\* the tags by which a validator refuses a target
RefusalTags ==
    {"already stopped", "already running", "not_found", "associated", "in_use",
     "default_group_skip"}
        \cup {"not_available_state:" \o st : st \in VolumeStates}

\* the targets of this invocation that have their result
Processed == 1..Len(results)
TagOf(k) == results[k].tag

\* the reads and the mutating calls made for the k-th target
ReadsOf(k) == {n \in 1..Len(reads) : reads[n].k = k}
CallsOf(k) == {n \in 1..Len(calls) : calls[n].k = k}
HasRead(k, op) == \E n \in ReadsOf(k) : reads[n].op = op
ReadOf(k, op) == reads[CHOOSE n \in ReadsOf(k) : reads[n].op = op]
\* a provider call made for the k-th target raised
ReadFailed(k) == \E n \in ReadsOf(k) : reads[n].raised
CallFailed(k) == \E n \in CallsOf(k) : ~calls[n].ok

\* the function of the request has returned its per-target results
Returned == pc \in {"log", "done"} /\ error = NoKey

\* C1 (as stated): a request with dry_run=true issues no mutating call, and
\* every target that its validator does not refuse has the result dry_run_ok.
C1_DryRunAllOk ==
    event = JTrue =>
        /\ calls = << >>
        /\ \A k \in Processed : TagOf(k) \notin RefusalTags => TagOf(k) = "dry_run_ok"

\* C1 (amended): a request with dry_run=true issues no mutating call; a target
\* whose validator read raises has the result error:<message>, and every other
\* target that its validator does not refuse has the result dry_run_ok.
C1_DryRunNoMutation ==
    event = JTrue =>
        /\ calls = << >>
        /\ \A k \in Processed :
            /\ ReadFailed(k) => TagOf(k) \in ErrorTags
            /\ (~ReadFailed(k) /\ TagOf(k) \notin RefusalTags) => TagOf(k) = "dry_run_ok"

\* a dry-run request over two targets has returned: one target passed its
\* validator, the read of the other raised
C1_Witness ==
    /\ event = JTrue /\ pc = "done" /\ Len(results) = 2
    /\ \E k \in Processed : TagOf(k) = "dry_run_ok"
    /\ \E k \in Processed : ReadFailed(k) /\ TagOf(k) \in ErrorTags
    /\ calls = << >>

\* the reads that let the function go on to the mutating call of the k-th
\* target: each read of its validator was made for that target, returned, and
\* showed a state the validator does not refuse
Approved(k) ==
    CASE action \in {"stop_instances", "start_instances"} ->
            /\ HasRead(k, "describe_instances")
            /\ LET r == ReadOf(k, "describe_instances")
               IN  /\ ~r.raised /\ r.id = targets[k]
                   /\ r.state # (IF action = "stop_instances" THEN "stopped" ELSE "running")
      [] action = "delete_volumes" ->
            /\ HasRead(k, "describe_volumes")
            /\ LET r == ReadOf(k, "describe_volumes")
               IN  ~r.raised /\ r.id = targets[k] /\ r.state = "available"
      [] action = "release_eips" ->
            /\ HasRead(k, "describe_addresses")
            /\ LET r == ReadOf(k, "describe_addresses")
               IN  /\ ~r.raised /\ r.id = targets[k] /\ r.state # << >>
                   /\ "AssociationId" \notin DOMAIN r.state[1]
      [] action = "delete_security_groups" ->
            /\ HasRead(k, "describe_security_groups")
            /\ HasRead(k, "describe_network_interfaces")
            /\ LET r == ReadOf(k, "describe_security_groups")
                   e == ReadOf(k, "describe_network_interfaces")
               IN  /\ ~r.raised /\ r.id = targets[k] /\ r.state # << >>
                   /\ r.state[1].GroupName # "default"
                   /\ ~e.raised /\ e.id = targets[k] /\ e.state = {}
      [] OTHER -> action = "terminate_instances"

\* C2: a mutating call is issued only in a request whose dry-run flag is false,
\* for the target the loop is at, and (terminate apart) only when the validator
\* has already read that target's state in this request and not refused it; a
\* target whose result is a refusal tag has no mutating call.
C2_MutationOnlyAfterApproval ==
    /\ [](\A k \in Processed : TagOf(k) \in RefusalTags => CallsOf(k) = {})
    /\ [][\A n \in 1..Len(calls') :
            n > Len(calls) =>
                /\ event = JFalse /\ dry_run = JFalse
                /\ calls'[n].k = idx /\ calls'[n].id = targets[idx]
                /\ idx \notin Processed
                /\ Approved(idx)]_vars

\* a request with dry_run=false has stopped one instance and refused the other
C2_Witness ==
    /\ pc = "done" /\ action = "stop_instances" /\ event = JFalse
    /\ \E k \in Processed : TagOf(k) = "stop_requested" /\ CallsOf(k) # {} /\ Approved(k)
    /\ \E k \in Processed : TagOf(k) = "already stopped" /\ CallsOf(k) = {}

\* C3: a request that carries no dry-run flag is handled as dry_run=true: it
\* issues no mutating call and the outcome it returns echoes dry_run=true.
C3_DefaultIsDryRun ==
    (event = NoKey /\ pc # "idle") =>
        /\ dry_run = JTrue
        /\ calls = << >>
        /\ pc = "done" => response.body.dry_run = JTrue

\* a request without the flag has returned dry_run_ok for a target
C3_Witness ==
    /\ event = NoKey /\ pc = "done" /\ action = "terminate_instances"
    /\ Len(results) >= 1 /\ TagOf(1) = "dry_run_ok"
    /\ response.body.dry_run = JTrue

\* the k-th target met a provider call that raised
Failed(k) == ReadFailed(k) \/ CallFailed(k)
\* the k-th target got exactly one mutating call, and the result tag that the
\* call's outcome gives: done when it returned, error:<message> when it raised
OneCall(k, done) ==
    /\ Cardinality(CallsOf(k)) = 1
    /\ \A n \in CallsOf(k) :
         IF calls[n].ok THEN TagOf(k) = done ELSE TagOf(k) \in ErrorTags

\* C4: when the function returns, the results list has one entry per target, in
\* request order, whatever provider calls failed; the error:* entries are
\* exactly those of the targets that met a failing provider call (so exactly
\* one when exactly one target fails); and every target, also after a failed
\* one, was validated and, when approved in a real run, acted on.
C4_PartialFailure ==
    Returned =>
        /\ Len(results) = Len(targets)
        /\ \A k \in 1..Len(targets) :
            /\ results[k].id = targets[k]
            /\ TagOf(k) \in ErrorTags <=> Failed(k)
            /\ action # "terminate_instances" => ReadsOf(k) # {}
            /\ (~ReadFailed(k) /\ TagOf(k) \notin RefusalTags /\ dry_run = JFalse)
                    => Cardinality(CallsOf(k)) = 1
        /\ Cardinality({k \in 1..Len(targets) : Failed(k)}) = 1
                => Cardinality({k \in 1..Len(targets) : TagOf(k) \in ErrorTags}) = 1

\* the delete call of the first of two volumes raised, and the second volume
\* was still read and deleted
C4_Witness ==
    /\ pc = "done" /\ action = "delete_volumes" /\ Len(targets) = 2
    /\ CallFailed(1) /\ TagOf(1) \in ErrorTags
    /\ ~Failed(2) /\ TagOf(2) = "deleted" /\ CallsOf(2) # {}

\* C5 (as stated): a volume read in a state other than available has the
\* result not_available_state:<state> and no delete call, dry-run or not; a
\* volume read as available, with dry_run=false, has the result deleted after
\* exactly one delete call.
C5_VolumeDeleted ==
    \A k \in Processed :
        (action = "delete_volumes" /\ HasRead(k, "describe_volumes")) =>
            LET r == ReadOf(k, "describe_volumes") IN
            ~r.raised =>
                /\ r.state # "available" =>
                        (TagOf(k) = "not_available_state:" \o r.state /\ CallsOf(k) = {})
                /\ (r.state = "available" /\ event = JFalse) =>
                        (TagOf(k) = "deleted" /\ Cardinality(CallsOf(k)) = 1)

\* C5 (amended): a volume read in a state other than available has the result
\* not_available_state:<state> and no delete call, dry-run or not; a volume
\* read as available, with dry_run=false, gets exactly one delete call, and
\* has the result deleted when that call returns and error:<message> when it
\* raises.
C5_VolumeOnlyFromAvailable ==
    \A k \in Processed :
        (action = "delete_volumes" /\ HasRead(k, "describe_volumes")) =>
            LET r == ReadOf(k, "describe_volumes") IN
            ~r.raised =>
                /\ r.state # "available" =>
                        (TagOf(k) = "not_available_state:" \o r.state /\ CallsOf(k) = {})
                /\ (r.state = "available" /\ event = JFalse) => OneCall(k, "deleted")

\* vol-1 is in use and refused in a real run; vol-2 is available and deleted
C5_Witness ==
    /\ pc = "done" /\ action = "delete_volumes" /\ event = JFalse
    /\ targets = <<"vol-1", "vol-2">>
    /\ TagOf(1) = "not_available_state:in-use" /\ CallsOf(1) = {}
    /\ TagOf(2) = "deleted" /\ Cardinality(CallsOf(2)) = 1

\* C6: a group the validator reads as named default has the result
\* default_group_skip, whatever references it (the interfaces are not even
\* read); any other group that it reads with a referencing network interface
\* has the result in_use; a group id for which the provider returns no group
\* has the result not_found; none of the three gets a delete call, dry-run or
\* not, also when a read of the validator raises.
C6_GroupRefusals ==
    \A k \in Processed :
        (action = "delete_security_groups" /\ HasRead(k, "describe_security_groups")) =>
            LET r == ReadOf(k, "describe_security_groups") IN
            /\ (~r.raised /\ r.state = << >>) =>
                    (TagOf(k) = "not_found" /\ CallsOf(k) = {})
            /\ r.state # << >> =>
                /\ r.state[1].GroupName = "default" =>
                        /\ CallsOf(k) = {}
                        /\ ~HasRead(k, "describe_network_interfaces")
                        /\ ~r.raised => TagOf(k) = "default_group_skip"
                /\ (r.state[1].GroupName # "default" /\ r.state[1].enis # {}) =>
                        /\ CallsOf(k) = {}
                        /\ ~ReadFailed(k) => TagOf(k) = "in_use"

\* in a real run the default group, referenced by an interface, is skipped,
\* and a referenced group of another name is reported in use
C6_Witness ==
    /\ pc = "done" /\ action = "delete_security_groups" /\ event = JFalse
    /\ Len(targets) = 2 /\ calls = << >>
    /\ TagOf(1) = "default_group_skip"
    /\ ReadOf(1, "describe_security_groups").state[1].enis # {}
    /\ TagOf(2) = "in_use"

\* C7 (as stated): an allocation id for which describe_addresses returns no
\* record has the result not_found, an address returned with an association
\* id the result associated, both without a release call, dry-run or not; an
\* address returned without an association id has the result dry_run_ok under
\* dry-run and otherwise the result released after one release call.
C7_AddressReleased ==
    \A k \in Processed :
        (action = "release_eips" /\ HasRead(k, "describe_addresses")) =>
            LET r == ReadOf(k, "describe_addresses") IN
            ~r.raised =>
                IF r.state = << >>
                THEN TagOf(k) = "not_found" /\ CallsOf(k) = {}
                ELSE IF "AssociationId" \in DOMAIN r.state[1]
                THEN TagOf(k) = "associated" /\ CallsOf(k) = {}
                ELSE IF dry_run = JTrue
                THEN TagOf(k) = "dry_run_ok" /\ CallsOf(k) = {}
                ELSE TagOf(k) = "released" /\ Cardinality(CallsOf(k)) = 1

\* C7 (amended): as stated, except that an address returned without an
\* association id, in a real run, gets exactly one release call and has the
\* result released when that call returns and error:<message> when it raises.
C7_AddressOnlyUnassociated ==
    \A k \in Processed :
        (action = "release_eips" /\ HasRead(k, "describe_addresses")) =>
            LET r == ReadOf(k, "describe_addresses") IN
            ~r.raised =>
                IF r.state = << >>
                THEN TagOf(k) = "not_found" /\ CallsOf(k) = {}
                ELSE IF "AssociationId" \in DOMAIN r.state[1]
                THEN TagOf(k) = "associated" /\ CallsOf(k) = {}
                ELSE IF dry_run = JTrue
                THEN TagOf(k) = "dry_run_ok" /\ CallsOf(k) = {}
                ELSE OneCall(k, "released")

\* a dry run reports the missing allocation id as not_found and the
\* associated address as associated
C7_Witness ==
    /\ pc = "done" /\ action = "release_eips" /\ event = JTrue
    /\ targets = <<"eip-missing", "eip-1">>
    /\ TagOf(1) = "not_found" /\ TagOf(2) = "associated" /\ calls = << >>

\* C8: a stop request for an instance that the validator reads as stopped has
\* the result already stopped, not error:*, and an instance whose state is
\* stopped never gets a stop call, dry-run or not; so stopping a stopped
\* instance twice in a row issues no call either time.
C8_StoppedIsIdempotent ==
    \A k \in Processed :
        (action = "stop_instances" /\ HasRead(k, "describe_instances")) =>
            LET r == ReadOf(k, "describe_instances") IN
            r.state = "stopped" =>
                /\ CallsOf(k) = {}
                /\ ~r.raised => TagOf(k) = "already stopped"

\* a real run stops the same stopped instance twice in a row: both times the
\* result is already stopped and there is no stop call
C8_Witness ==
    /\ pc = "done" /\ action = "stop_instances" /\ event = JFalse
    /\ Len(targets) = 2 /\ targets[1] = targets[2]
    /\ TagOf(1) = "already stopped" /\ TagOf(2) = "already stopped"
    /\ calls = << >>

\* the tag of a stop / start call that returned
RequestedTag == IF action = "stop_instances" THEN "stop_requested" ELSE "start_requested"
\* the state in which the validator of stop / start refuses
SatisfiedState == IF action = "stop_instances" THEN "stopped" ELSE "running"

\* C9 (as stated): a start request for an instance read as running has the
\* result already running and gets no start call; in every other lifecycle
\* state (every state but stopped for stop) the request proceeds: the result
\* is dry_run_ok under dry-run, and otherwise there is exactly one start /
\* stop call and the result is start_requested / stop_requested.
C9_StartStopProceeds ==
    \A k \in Processed :
        (action \in {"stop_instances", "start_instances"} /\ HasRead(k, "describe_instances")) =>
            LET r == ReadOf(k, "describe_instances") IN
            ~r.raised =>
                /\ (action = "start_instances" /\ r.state = "running") =>
                        (TagOf(k) = "already running" /\ CallsOf(k) = {})
                /\ r.state # SatisfiedState =>
                        IF dry_run = JTrue
                        THEN TagOf(k) = "dry_run_ok" /\ CallsOf(k) = {}
                        ELSE TagOf(k) = RequestedTag /\ Cardinality(CallsOf(k)) = 1

\* C9 (amended): as stated, except that in a real run the one start / stop
\* call gives the result start_requested / stop_requested when it returns and
\* error:<message> when it raises.
C9_StartStopValidator ==
    \A k \in Processed :
        (action \in {"stop_instances", "start_instances"} /\ HasRead(k, "describe_instances")) =>
            LET r == ReadOf(k, "describe_instances") IN
            ~r.raised =>
                /\ (action = "start_instances" /\ r.state = "running") =>
                        (TagOf(k) = "already running" /\ CallsOf(k) = {})
                /\ r.state # SatisfiedState =>
                        IF dry_run = JTrue
                        THEN TagOf(k) = "dry_run_ok" /\ CallsOf(k) = {}
                        ELSE OneCall(k, RequestedTag)

\* a real run starts a stopped instance and a terminated one: each gets its
\* one start call
C9_Witness ==
    /\ pc = "done" /\ action = "start_instances" /\ event = JFalse
    /\ Len(targets) = 2
    /\ ReadOf(1, "describe_instances").state = "stopped"
    /\ TagOf(1) = "start_requested"
    /\ ReadOf(2, "describe_instances").state = "terminated"
    /\ ~ReadFailed(2) /\ Cardinality(CallsOf(2)) = 1

\* C10: terminate makes no state lookup; under dry-run every target has the
\* result dry_run_ok and no terminate call, and in a real run every target
\* gets exactly one terminate call, with the result terminate_requested when
\* the call returns and error:<message> when it raises, whatever the state of
\* the instance.
C10_TerminateNoPrecondition ==
    action = "terminate_instances" =>
        /\ reads = << >>
        /\ \A k \in Processed :
            IF dry_run = JTrue
            THEN TagOf(k) = "dry_run_ok" /\ CallsOf(k) = {}
            ELSE OneCall(k, "terminate_requested")

\* a real run terminates a stopped instance and one that is already
\* terminated, without reading either state
C10_Witness ==
    /\ pc = "done" /\ action = "terminate_instances" /\ event = JFalse
    /\ targets = <<"i-1", "i-2">> /\ reads = << >>
    /\ TagOf(1) = "terminate_requested" /\ TagOf(2) = "terminate_requested"
    /\ inst["i-2"] = "terminated"
    /\ Len(calls) = 2

\* the name Python prints for the action of the request
ActionName == IF action = JNull THEN "None" ELSE action

\* C11: a request whose action is none of the six known ones (a missing action
\* included) makes no validator read and no mutating call for the ids it
\* carries and has no per-target result; its outcome has the error field
\* "Unknown action: <action>" and no details, and the handler returns it with
\* statusCode 200.
C11_UnknownAction ==
    (pc # "idle" /\ action \notin KnownActions) =>
        /\ error = "Unknown action: " \o ActionName
        /\ results = << >> /\ reads = << >> /\ calls = << >>
        /\ pc \in {"log", "done"}
        /\ pc = "done" =>
              /\ response.statusCode = 200
              /\ response.body.error = "Unknown action: " \o ActionName
              /\ response.body.details = << >>

\* a real-run request with an unknown action and two ids has returned
C11_Witness ==
    /\ pc = "done" /\ action = "reboot_instances" /\ event = JFalse
    /\ Len(targets) = 2
    /\ response.statusCode = 200
    /\ response.body.error = "Unknown action: reboot_instances"
    /\ reads = << >> /\ calls = << >>

\* C12: a request with a known action and a list of target ids returns
\* statusCode 200 with no top-level error and one details object, which echoes
\* the requested ids and holds one result per target in request order,
\* whichever provider calls failed; the targets whose result is an
\* error:<message> tag are exactly those that met a failing provider call.
C12_CompleteOutcome ==
    (pc = "done" /\ action \in KnownActions /\ error # NotIterable) =>
        /\ response.statusCode = 200
        /\ response.body.error = NoKey
        /\ Len(response.body.details) = 1
        /\ LET d == response.body.details[1]
           IN  /\ d.requested = targets
               /\ Len(d.results) = Len(targets)
               /\ \A k \in 1..Len(targets) :
                    /\ d.results[k].id = targets[k]
                    /\ d.results[k].tag \in ErrorTags <=> Failed(k)

\* a real-run request over two groups has returned: the validator read of one
\* target raised and the delete call of the other raised
C12_Witness ==
    /\ pc = "done" /\ action = "delete_security_groups" /\ event = JFalse
    /\ Len(targets) = 2
    /\ ReadFailed(1) /\ CallFailed(2)
    /\ response.body.error = NoKey
    /\ Len(response.body.details[1].results) = 2

\* the result tags of the closed vocabulary
Vocabulary ==
    {"already stopped", "already running", "dry_run_ok", "stop_requested",
     "start_requested", "terminate_requested", "deleted", "released", "not_found",
     "associated", "in_use", "default_group_skip"}
        \cup {"not_available_state:" \o st : st \in VolumeStates \ {"available"}}
        \cup ErrorTags

\* the result tags that belong to each action
TagsOfAction(a) ==
    ErrorTags \cup {"dry_run_ok"} \cup
    CASE a = "stop_instances" -> {"already stopped", "stop_requested"}
      [] a = "start_instances" -> {"already running", "start_requested"}
      [] a = "terminate_instances" -> {"terminate_requested"}
      [] a = "delete_volumes" ->
            {"deleted"} \cup {"not_available_state:" \o st : st \in VolumeStates \ {"available"}}
      [] a = "release_eips" -> {"not_found", "associated", "released"}
      [] a = "delete_security_groups" ->
            {"not_found", "default_group_skip", "in_use", "deleted"}
      [] OTHER -> {}

\* C13: every per-target result is a tag of the closed vocabulary, and it is
\* one of the tags of the request's action: deleted comes only from
\* delete_volumes and delete_security_groups, released only from release_eips,
\* already stopped only from stop_instances, and so on.
C13_ClosedVocabulary ==
    \A k \in Processed :
        /\ TagOf(k) \in Vocabulary
        /\ TagOf(k) \in TagsOfAction(action)
        /\ TagOf(k) = "deleted" => action \in {"delete_volumes", "delete_security_groups"}
        /\ TagOf(k) = "released" => action = "release_eips"
        /\ TagOf(k) = "already stopped" => action = "stop_instances"

\* a real-run request over two groups has returned: one group was deleted, the
\* other is in use
C13_Witness ==
    /\ pc = "done" /\ action = "delete_security_groups" /\ event = JFalse
    /\ \E k \in Processed : TagOf(k) = "deleted"
    /\ \E k \in Processed : TagOf(k) = "in_use"

\* the outcome the handler has built when it comes to the audit write
OutcomeBeforeAudit ==
    [action |-> action, dry_run |-> dry_run,
     details |-> IF error = NoKey
                 THEN <<[action |-> action, requested |-> targets, results |-> results]>>
                 ELSE << >>,
     error |-> error]

\* C14: the step that makes the audit write and returns gives, whether the
\* write succeeded or failed, statusCode 200 with the outcome built before the
\* write; it issues, repeats and undoes no mutating call and leaves the
\* provider and the per-target results as they were.
C14_AuditBestEffort ==
    [][(pc = "log" /\ pc' = "done") =>
            /\ logged' \in {"written", "failed"}
            /\ response' = [statusCode |-> 200, body |-> OutcomeBeforeAudit]
            /\ calls' = calls /\ results' = results
            /\ provider' = provider]_vars

\* a real-run request has released an address, its audit write failed, and the
\* outcome it returned has the released result
C14_Witness ==
    /\ pc = "done" /\ logged = "failed" /\ action = "release_eips"
    /\ Len(calls) = 1 /\ calls[1].ok
    /\ response.statusCode = 200
    /\ response.body.details[1].results = <<[id |-> "eip-1", tag |-> "released"]>>
    /\ addr["eip-1"] = << >>

(* ------------------------- claims of the scan ------------------------- *)

\* the current instance has its verdict, which was computed from the window in
\* cpu_datapoints, netin_datapoints and netout_datapoints
Classified == instance_info.Status # NoKey
\* sum of the Average of the CPU datapoints (tenths of a percent), their number
\* and the sum of the NetworkIn and NetworkOut sums of the window
CpuSum == SumAverage(cpu_datapoints)
CpuSamples == Len(cpu_datapoints)
NetworkTotal == SumSum(netin_datapoints) + SumSum(netout_datapoints)

\* C15: the verdict of a window is Idle iff the window has at least one CPU
\* sample, the average of its CPU samples is below CPU_THRESHOLD (10 %) and
\* the sum of its network-in and network-out bytes is below NETWORK_THRESHOLD
\* (1048576); it is NoData iff the window has no CPU sample, and Active
\* otherwise; the recommendation is "Consider stopping instance" exactly for
\* Idle.
C15_DecisionTable ==
    Classified =>
        /\ instance_info.Status \in {"Idle", "Active", "NoData"}
        /\ instance_info.Status = "Idle" <=>
              /\ CpuSamples >= 1
              /\ CpuSum < Percent(CPU_THRESHOLD) * CpuSamples
              /\ NetworkTotal < NETWORK_THRESHOLD
        /\ instance_info.Status = "NoData" <=> CpuSamples = 0
        /\ instance_info.Recommendation = "Consider stopping instance"
              <=> instance_info.Status = "Idle"

\* a window with one CPU sample of 3.2 % and 500000 network bytes is Idle
C15_Witness ==
    /\ Classified /\ CpuSamples = 1 /\ CpuSum = 32 /\ NetworkTotal = 500000
    /\ instance_info.Status = "Idle"
    /\ instance_info.Recommendation = "Consider stopping instance"

\* the instances with the verdict st in analyzed_instances
WithVerdict(st) ==
    {analyzed_instances[k].InstanceId :
        k \in {n \in 1..Len(analyzed_instances) : analyzed_instances[n].Status = st}}
\* the instances in idle_instances
InIdleList == {idle_instances[k].InstanceId : k \in 1..Len(idle_instances)}
\* the provider calls op the scan has made for instance i
ScanCalls(i, op) == {n \in 1..Len(scan_calls) : scan_calls[n].id = i /\ scan_calls[n].op = op}

\* C16: a window without CPU samples gets the verdict NoData, whatever its
\* network totals; an instance with the verdict NoData gets no tagging call
\* and no marker tag, is not in the idle list, and the summary counts it
\* neither as idle nor as active.
C16_NoDataIsNotIdle ==
    /\ (Classified /\ CpuSamples = 0) => instance_info.Status = "NoData"
    /\ \A i \in WithVerdict("NoData") :
          /\ ScanCalls(i, "create_tags") = {}
          /\ tags[i].CostOptimization = NoKey
          /\ i \notin InIdleList
    /\ scan_pc = "done" =>
          LET s == scan_response.body.summary
          IN  /\ s.idle_instances = Cardinality(WithVerdict("Idle"))
              /\ s.active_instances = Cardinality(WithVerdict("Active"))
              /\ s.total_instances_analyzed =
                    s.idle_instances + s.active_instances + Cardinality(WithVerdict("NoData"))

\* a scan of two instances has returned: the first had no CPU samples, the
\* second is Idle
C16_Witness ==
    /\ scan_pc = "done" /\ Len(analyzed_instances) = 2
    /\ analyzed_instances[1].Status = "NoData"
    /\ analyzed_instances[2].Status = "Idle"
    /\ scan_response.body.summary.idle_instances = 1
    /\ scan_response.body.summary.active_instances = 0
    /\ tags[analyzed_instances[1].InstanceId].CostOptimization = NoKey

\* C17: a window with CPU samples whose average is exactly CPU_THRESHOLD is
\* Active, whatever its network total, and a window with CPU samples whose
\* network total is exactly NETWORK_THRESHOLD is Active, whatever its average.
C17_ThresholdsExclusive ==
    (Classified /\ CpuSamples >= 1) =>
        /\ CpuSum = Percent(CPU_THRESHOLD) * CpuSamples => instance_info.Status = "Active"
        /\ NetworkTotal = NETWORK_THRESHOLD => instance_info.Status = "Active"

\* the two CPU samples of the current window average 3.2 %, its network-in
\* and network-out sums add up to exactly the threshold, and its verdict is
\* Active
C17_Witness ==
    /\ Classified /\ instance_info.Status = "Active"
    /\ CpuSamples = 2 /\ CpuSum = 64
    /\ NetworkTotal = NETWORK_THRESHOLD
    /\ Len(netout_datapoints) = 1

\* the running instances the scan does not skip
Candidates ==
    {instances[k] : k \in {n \in 1..Len(instances) : tags[instances[n]].AutoStop # "false"}}
\* the running instances with the tag AutoStop=false
OptedOut ==
    {instances[k] : k \in {n \in 1..Len(instances) : tags[instances[n]].AutoStop = "false"}}
\* the instances with an entry in analyzed_instances
Analyzed == {analyzed_instances[k].InstanceId : k \in 1..Len(analyzed_instances)}
\* the three metric calls for instance i were made and returned
Fetched(i) ==
    \A m \in 1..Len(Metrics) :
        \E n \in ScanCalls(i, Metrics[m]) : scan_calls[n].ok

\* C18: for a running instance with the tag AutoStop=false the scan makes no
\* provider call (no metric fetch, no tagging, no write), gives no verdict and
\* counts it nowhere in the summary; every other running instance is fetched,
\* and when its fetch returns it has its verdict in the summary.
C18_AutoStopFalseExcluded ==
    /\ \A i \in OptedOut :
          /\ \A n \in 1..Len(scan_calls) : scan_calls[n].id # i
          /\ i \notin Analyzed /\ i \notin InIdleList
          /\ tags[i].CostOptimization = NoKey
          /\ table[i] = << >>
    /\ scan_pc = "done" =>
          /\ scan_response.body.summary.total_instances_analyzed = Cardinality(Analyzed)
          /\ Analyzed \subseteq Candidates
          /\ \A i \in Candidates :
                /\ ScanCalls(i, "CPUUtilization") # {}
                /\ Fetched(i) => i \in Analyzed

\* a scan of two running instances has returned: the first has AutoStop=false,
\* the second AutoStop=true, and the summary holds the verdict of the second
\* alone
C18_Witness ==
    /\ scan_pc = "done" /\ instances = <<"i-1", "i-2">>
    /\ tags["i-1"].AutoStop = "false" /\ tags["i-2"].AutoStop = "true"
    /\ Analyzed = {"i-2"}
    /\ scan_response.body.summary.total_instances_analyzed = 1
    /\ table["i-2"] # << >>

\* the scan is at the given step of instance i
At(i, step) == scan_pc = step /\ pos <= Len(instances) /\ instances[pos] = i
\* the tagging call for instance i raised
TaggingFailed(i) == \E n \in ScanCalls(i, "create_tags") : ~scan_calls[n].ok

\* C19: the scan makes the tagging call for an instance iff its verdict is
\* Idle, once, and the marker and the detection timestamp are on the instance
\* iff that call returned; an instance whose tagging call raised keeps the
\* verdict Idle, is in the idle list and counted as idle in the summary, gets
\* its put_item call (and its Idle item in the table when that call returns),
\* and the scan goes on to fetch every remaining instance.
C19_TaggingBestEffort ==
    /\ \A n \in 1..Len(scan_calls) :
          scan_calls[n].op = "create_tags" => scan_calls[n].id \in InIdleList
    /\ \A i \in InIdleList :
          /\ At(i, "tag") \/ Cardinality(ScanCalls(i, "create_tags")) = 1
          /\ tags[i].CostOptimization = "CandidateForStop"
                <=> \E n \in ScanCalls(i, "create_tags") : scan_calls[n].ok
          /\ tags[i].CostOptimization = "CandidateForStop"
                => tags[i].IdleDetectedAt = timestamp
    /\ \A i \in InstanceIds \ InIdleList : tags[i].CostOptimization = NoKey
    /\ \A i \in InstanceIds :
          TaggingFailed(i) =>
            /\ i \in InIdleList /\ i \in WithVerdict("Idle")
            /\ At(i, "put") \/ Cardinality(ScanCalls(i, "put_item")) = 1
            /\ \A n \in ScanCalls(i, "put_item") :
                  scan_calls[n].ok =>
                    /\ table[i] # << >>
                    /\ table[i][1].Status = "Idle"
                    /\ table[i][1].EvaluationTimestamp = timestamp
            /\ scan_pc = "done" =>
                  /\ scan_response.body.summary.idle_instances = Cardinality(InIdleList)
                  /\ \A j \in Candidates : ScanCalls(j, "CPUUtilization") # {}

\* a scan of two instances has returned: the tagging of the first raised, its
\* Idle item is in the table, and the second was classified and tagged
C19_Witness ==
    /\ scan_pc = "done" /\ instances = <<"i-1", "i-2">>
    /\ TaggingFailed("i-1") /\ tags["i-1"].CostOptimization = NoKey
    /\ table["i-1"] # << >> /\ table["i-1"][1].Status = "Idle"
    /\ tags["i-2"].CostOptimization = "CandidateForStop"
    /\ scan_response.body.summary.idle_instances = 2

\* the provider operations of the scan
ScanOps == {Metrics[m] : m \in 1..Len(Metrics)} \cup {"create_tags", "put_item"}
\* a metric fetch or the write of instance i raised
FetchFailed(i) ==
    \E m \in 1..Len(Metrics) : \E n \in ScanCalls(i, Metrics[m]) : ~scan_calls[n].ok
WriteFailed(i) == \E n \in ScanCalls(i, "put_item") : ~scan_calls[n].ok

\* the scan is a best-effort batch as far as the code goes: no call is made
\* twice for an instance and nothing more is called for an instance after its
\* fetch or write raised; when the scan has returned (statusCode 200) every
\* candidate was fetched, every candidate whose fetch returned has its verdict,
\* and every candidate with the verdict Idle or Active got its put_item call,
\* whose item is in the table when the call returned
C20_Isolation ==
    /\ \A i \in InstanceIds, op \in ScanOps : Cardinality(ScanCalls(i, op)) <= 1
    /\ \A n \in 1..Len(scan_calls) :
          (~scan_calls[n].ok /\ scan_calls[n].op # "create_tags") =>
              \A m \in (n + 1)..Len(scan_calls) : scan_calls[m].id # scan_calls[n].id
    /\ scan_pc = "done" =>
          /\ scan_response.statusCode = 200
          /\ \A i \in Candidates :
                /\ ScanCalls(i, "CPUUtilization") # {}
                /\ Fetched(i) <=> i \in Analyzed
                /\ i \in WithVerdict("Idle") \cup WithVerdict("Active") =>
                      /\ Cardinality(ScanCalls(i, "put_item")) = 1
                      /\ ~WriteFailed(i) =>
                            /\ table[i] # << >>
                            /\ table[i][1].EvaluationTimestamp = timestamp
                            /\ table[i][1].Status \in {"Idle", "Active"}

\* C20 (as stated): a metric fetch or a DetectionRecord write that fails for
\* one instance does not abort the scan and is not retried: the scan returns
\* statusCode 200, and every other candidate, none of whose own calls failed,
\* was fetched, classified and has its DetectionRecord of this cycle written.
C20_BestEffortBatch ==
    /\ C20_Isolation
    /\ scan_pc = "done" =>
          \A i \in Candidates :
              (FetchFailed(i) \/ WriteFailed(i)) =>
                  \A j \in Candidates \ {i} :
                      (~FetchFailed(j) /\ ~WriteFailed(j)) =>
                          /\ j \in Analyzed
                          /\ table[j] # << >>
                          /\ table[j][1].EvaluationTimestamp = timestamp

\* the table holds the item of this cycle for instance i, with the status st
HasRecord(i, st) ==
    /\ Len(table[i]) = 1
    /\ table[i][1].InstanceId = i
    /\ table[i][1].Status = st
    /\ table[i][1].EvaluationTimestamp = timestamp
\* the instances with the verdict st whose write did not fail have their item
Written(st) == \A i \in WithVerdict(st) : ~WriteFailed(i) => HasRecord(i, st)

\* C21 (as stated): when a scan cycle has returned, every instance that got a
\* verdict in it (Idle, Active or NoData) and whose write did not fail has
\* one item in the table, under its instance id, with that verdict as status
\* and the timestamp of the cycle.
C21_RecordLifecycle ==
    scan_pc = "done" => Written("Idle") /\ Written("Active") /\ Written("NoData")

\* what the code does: the instances with the verdict Idle or Active have
\* their item, and the scan leaves the table without any item for an instance
\* with the verdict NoData
C21_NoDataUnwritten ==
    scan_pc = "done" =>
        /\ Written("Idle") /\ Written("Active")
        /\ \A i \in WithVerdict("NoData") : table[i] = << >>

\* the number of entries of a list of instance_info with the status st
CountOf(list, st) == Cardinality({k \in 1..Len(list) : list[k].Status = st})
\* the instances whose three metric calls returned in this cycle: those that
\* got a verdict
GotVerdict == {i \in InstanceIds : Fetched(i)}

\* C22: the summary a scan returns has total analyzed = the number of
\* instances that got a verdict in the cycle, idle count = the number with the
\* verdict Idle and active count = the number with the verdict Active, an
\* instance whose put_item raised included; idle + active <= total, the
\* difference being the number of NoData verdicts; and every entry of the
\* idle list is an entry of the full list.
C22_SummaryCounts ==
    scan_pc = "done" =>
        LET body == scan_response.body
            s == body.summary
        IN  /\ s.total_instances_analyzed = Cardinality(GotVerdict)
            /\ Analyzed = GotVerdict
            /\ s.total_instances_analyzed = Len(body.all_instances)
            /\ s.idle_instances = CountOf(body.all_instances, "Idle")
            /\ s.active_instances = CountOf(body.all_instances, "Active")
            /\ s.idle_instances + s.active_instances <= s.total_instances_analyzed
            /\ s.total_instances_analyzed - (s.idle_instances + s.active_instances)
                  = CountOf(body.all_instances, "NoData")
            /\ \A k \in 1..Len(body.idle_instances) :
                  \E n \in 1..Len(body.all_instances) :
                      body.all_instances[n] = body.idle_instances[k]
            /\ \A i \in InstanceIds :
                  WriteFailed(i) => i \in WithVerdict("Idle") \cup WithVerdict("Active")

\* a scan of two instances has returned: the first is Active and its put_item
\* raised, the second is NoData; the summary counts two analyzed, one active
C22_Witness ==
    /\ scan_pc = "done" /\ Len(analyzed_instances) = 2
    /\ analyzed_instances[1].Status = "Active"
    /\ WriteFailed(analyzed_instances[1].InstanceId)
    /\ analyzed_instances[2].Status = "NoData"
    /\ scan_response.body.summary.total_instances_analyzed = 2
    /\ scan_response.body.summary.active_instances = 1
    /\ scan_response.body.summary.idle_instances = 0

(* ------------------- further claims of the cleanup -------------------- *)

\* the validator reads op made for the k-th target
ReadsOfOp(k, op) == {n \in ReadsOf(k) : reads[n].op = op}
\* the validator reads of the cleanup functions
ReadOps == {"describe_instances", "describe_volumes", "describe_addresses",
            "describe_security_groups", "describe_network_interfaces"}

\* C23: within one request every position of the target list gets each
\* validator read at most once and at most one mutating call; a read that
\* raised is followed by no other provider call for that position; a position
\* that met a failing call has exactly one result, an error:<message> tag; and
\* the provider calls are made in the order of the positions, never going
\* back to an earlier one.
C23_NoRetry ==
    /\ Len(results) <= Len(targets)
    /\ \A k \in 1..Len(targets) :
          /\ \A op \in ReadOps : Cardinality(ReadsOfOp(k, op)) <= 1
          /\ Cardinality(CallsOf(k)) <= 1
          /\ \A n \in ReadsOf(k) :
                reads[n].raised =>
                    /\ CallsOf(k) = {}
                    /\ \A m \in ReadsOf(k) : m <= n
          /\ (k \in Processed /\ Failed(k)) =>
                TagOf(k) \in ErrorTags /\ results[k].id = targets[k]
    /\ \A n, m \in 1..Len(reads) : n < m => reads[n].k <= reads[m].k
    /\ \A n, m \in 1..Len(calls) : n < m => calls[n].k < calls[m].k
    /\ \A n \in 1..Len(reads) : reads[n].k <= idx
    /\ \A n \in 1..Len(calls) : calls[n].k <= idx

\* a real-run request names the same instance twice: the stop call of the
\* first occurrence raised and was not repeated, the second occurrence got
\* its own read and its own call
C23_Witness ==
    /\ pc = "done" /\ action = "stop_instances" /\ event = JFalse
    /\ targets = <<"i-1", "i-1">>
    /\ Len(calls) = 2 /\ ~calls[1].ok /\ calls[2].ok
    /\ TagOf(1) \in ErrorTags /\ TagOf(2) = "stop_requested"
    /\ Len(reads) = 2

\* the function of the request's action has gone through all the targets, or
\* the dispatch has set the top-level error
AllProcessed == error # NoKey \/ (Len(results) = Len(targets) /\ idx > Len(targets))

\* C25: an invocation makes its audit write exactly once, in the step after
\* the dispatch, when all targets have been processed (or the dispatch has
\* failed or found the action unknown); no mutating call is issued once the
\* write has been attempted; and the item passed to the write carries the
\* request's action, its dry_run and the result that is returned to the
\* caller.  This holds for dry runs, unknown actions and failed targets alike.
C25_OneAuditAppend ==
    /\ [](/\ pc # "done" => logged = NoKey /\ log_item = << >>
          /\ pc = "log" => AllProcessed
          /\ pc = "done" =>
                /\ logged \in {"written", "failed"}
                /\ AllProcessed
                /\ Len(log_item) = 1
                /\ log_item[1].Action = action
                /\ log_item[1].DryRun = dry_run
                /\ log_item[1].Result = Str(response.body))
    /\ [][/\ logged' # logged /\ logged' # NoKey =>
               logged = NoKey /\ pc = "log" /\ pc' = "done" /\ calls' = calls
          /\ Len(calls') > Len(calls) => logged = NoKey /\ logged' = NoKey]_vars

\* a real run over two targets has returned: the mutating call of the first
\* raised, that of the second returned, and the audit write was made with the
\* outcome that holds both results
C25_Witness ==
    /\ pc = "done" /\ event = JFalse /\ Len(targets) = 2 /\ Len(calls) = 2
    /\ ~calls[1].ok /\ calls[2].ok
    /\ logged = "written"
    /\ log_item[1].Result.str.details[1].results = results
    /\ log_item[1].DryRun = JFalse

\* the keys of the audit writes that have returned
PutKeys == {audit_table.puts[n].ActionId : n \in 1..Len(audit_table.puts)}

\* C26: LOG_TABLE holds one item for every audit write that has returned, and
\* every item written is still in it as it was written, also when two
\* requests with the same action are served at the same reading of the clock.
C26_AppendOnly ==
    /\ Cardinality(audit_table.items) = Len(audit_table.puts)
    /\ \A n \in 1..Len(audit_table.puts) : audit_table.puts[n] \in audit_table.items

\* as long as no two audit writes had the same action and the same reading of
\* the clock, the table holds every item as it was written
C26_DistinctKeysKept ==
    Cardinality(PutKeys) = Len(audit_table.puts) => C26_AppendOnly

\* this step issues the mutating call op
Issues(op) ==
    /\ Len(calls') = Len(calls) + 1
    /\ calls'[Len(calls')].op = op

\* C27: also when other users change the account between the validator's read
\* and the mutating call, delete_volume is issued only for a volume that is
\* available when the call is made, release_address only for an address that
\* is not associated then, and delete_security_group only for a group that no
\* network interface references then.
C27_CallOnCurrentState ==
    [][/\ Issues("delete_volume") => vol[targets[idx]] = "available"
       /\ Issues("release_address") =>
              \/ addr[targets[idx]] = << >>
              \/ "AssociationId" \notin DOMAIN addr[targets[idx]][1]
       /\ Issues("delete_security_group") =>
              \/ sg[targets[idx]] = << >>
              \/ sg[targets[idx]][1].enis = {}]_vars

\* the stop calls of the first invocation for the instance of the second, and
\* those of the second, that returned
StopCalls ==
    {n \in 1..Len(calls) :
        calls[n].op = "stop_instances" /\ calls[n].id = peer_target /\ calls[n].ok}
PeerStopCalls == {n \in 1..Len(peer_calls) : peer_calls[n].ok}

\* both invocations serve a real-run stop request for the same instance, and
\* the instance was running when the first of them read its state
TwoStopRequests ==
    /\ action = "stop_instances" /\ dry_run = JFalse
    /\ targets = <<peer_target>>
    /\ \/ peer_read = "running"
       \/ \E n \in 1..Len(reads) : ~reads[n].raised /\ reads[n].state = "running"

\* C28: when two invocations serve a real-run stop request for the same
\* running instance at the same time, at most one stop call is made between
\* them (counting only the calls the provider accepted), and the invocation
\* whose stop call would come when the instance is stopped reports already
\* stopped and not stop_requested.
C28_SingleStop ==
    TwoStopRequests =>
        /\ Cardinality(StopCalls) + Cardinality(PeerStopCalls) <= 1
        /\ \A n \in 1..Len(peer_calls) :
              peer_calls[n].state = "stopped" => peer_result # "stop_requested"

\* C29: an invocation issues a mutating call only when the dry_run entry of
\* its request is the boolean false; with no entry, true, null, 0, the empty
\* string or the string "false" it issues none.
C29_OnlyBooleanFalse == calls # << >> => event = JFalse

(* --------------------- further claims of the scan --------------------- *)

\* before the n-th provider call of the scan, the call op for instance i was
\* made
Before(n, i, op) == \E j \in 1..(n - 1) : scan_calls[j].id = i /\ scan_calls[j].op = op
\* before the n-th provider call of the scan, the three metric calls for
\* instance i were made and returned
FetchedBefore(n, i) ==
    \A m \in 1..Len(Metrics) :
        \E j \in 1..(n - 1) :
            scan_calls[j] = [id |-> i, op |-> Metrics[m], ok |-> TRUE]

\* C24: in one scan cycle the calls for an instance come in the order
\* CPUUtilization, NetworkIn, NetworkOut, then (for an Idle verdict only) the
\* tagging call, then put_item; the instance has its verdict only when the
\* three metric calls have returned, a tagging call or a put_item only when it
\* has its verdict; and an instance whose metric fetch has not returned in
\* this cycle gets no verdict, no tag and no item.
C24_SubstepOrder ==
    /\ \A n \in 1..Len(scan_calls) :
          LET c == scan_calls[n] IN
            /\ c.op = "NetworkIn" => Before(n, c.id, "CPUUtilization")
            /\ c.op = "NetworkOut" => Before(n, c.id, "NetworkIn")
            /\ c.op = "create_tags" =>
                  /\ FetchedBefore(n, c.id)
                  /\ c.id \in InIdleList
                  /\ ~Before(n, c.id, "put_item")
            /\ c.op = "put_item" =>
                  /\ FetchedBefore(n, c.id)
                  /\ c.id \in WithVerdict("Idle") \cup WithVerdict("Active")
                  /\ c.id \in WithVerdict("Idle") <=> Before(n, c.id, "create_tags")
    /\ Classified => Fetched(instance_info.InstanceId)
    /\ \A i \in InstanceIds :
          ~Fetched(i) =>
              /\ i \notin Analyzed /\ i \notin InIdleList
              /\ tags[i].CostOptimization = NoKey
              /\ table[i] = << >>

\* a scan has made, for an Idle instance, the three metric calls, the tagging
\* call and the write, in this order, after the NetworkOut call of the
\* instance before it raised
C24_Witness ==
    /\ scan_pc = "done" /\ Len(scan_calls) = 8
    /\ scan_calls[3] = [id |-> "i-1", op |-> "NetworkOut", ok |-> FALSE]
    /\ scan_calls[4].op = "CPUUtilization" /\ scan_calls[6].op = "NetworkOut"
    /\ scan_calls[7] = [id |-> "i-2", op |-> "create_tags", ok |-> TRUE]
    /\ scan_calls[8] = [id |-> "i-2", op |-> "put_item", ok |-> TRUE]
    /\ table["i-1"] = << >> /\ table["i-2"] # << >>

(* ----------------------- claims of the dashboard ---------------------- *)

\* C30: for every row of a running instance the dashboard shows Idle exactly
\* when the record's average CPU is below CPU_THRESHOLD and its network total
\* is below NETWORK_THRESHOLD, and Active otherwise.
C30_DashboardAgrees ==
    \A k \in 1..Len(df) :
        df[k].InstanceState = "running" =>
            /\ df[k].Status \in {"Idle", "Active"}
            /\ df[k].Status = "Idle" <=>
                  /\ df[k].AvgCPU < 100 * CPU_THRESHOLD
                  /\ df[k].TotalNetworkBytes < NETWORK_THRESHOLD

\* for a row of a running instance the dashboard shows Idle exactly when the
\* record's average CPU is below 10 %, whatever its network total
C30_CpuOnly ==
    \A k \in 1..Len(df) :
        df[k].InstanceState = "running" =>
            /\ df[k].Status \in {"Idle", "Active"}
            /\ df[k].Status = "Idle" <=> df[k].AvgCPU < 100 * CPU_THRESHOLD

====
